---- MODULE Spec2Model ----
(***************************************************************************)
(* CU-UP side of srsRAN: the PDU session manager of one UE                 *)
(* (lib/cu_up/pdu_session_manager_impl.cpp), its local TEID scheme and the *)
(* E1AP message dispatcher (lib/e1ap/cu_up/e1ap_cu_up_impl.cpp).           *)
(***************************************************************************)
EXTENDS Integers, Sequences, FiniteSets, TLC

\* ------------------------------------------------------------------ bounds
\* Ceiling of the session collection (pdu_session_manager_impl.cpp:130),
\* scaled down.
MAX_NUM_PDU_SESSIONS_PER_UE == 2
\* DRB ids are 1..MaxDrbId.
MaxDrbId == 2
\* A DRB item carries at most MaxNofFlows QoS flows.
MaxNofFlows == 2
\* Longest DRB list of a setup request of the DRB-level specifications.
MaxDrbItems == 2
\* Largest total number of items in the three lists of a modify request.
MaxModItems == 2
\* Entries that other users of the shared demultiplexer hold at a time.
MaxForeignTunnels == 1
\* Size of the pool of CU-UP-side UE ids and of UE indexes.
MAX_NOF_UES == 2
\* Capacity of the task queue of the CU-UP executor.
MaxQueue == 1
\* The peer's CU-CP-side UE ids are 1..MaxCuCpId.
MaxCuCpId == 1
\* E1 setup procedures launched in one run, each on a transaction of its own.
MaxTransactions == 2
\* Tasks the executor holds where the order of processing is studied.
MaxBacklog == 2
\* Threads that call reserve_encoder on one accelerator at the same time.
NofThreads == 2
\* Cells of config.cell_affinities.
MaxCellAffinities == 1
\* Cells of config.expert_cfg.gpio_tx_cells, and sectors of one cell.
MaxGpioCells == 1
MaxSectors == 1
\* Entries the gpio_tx_cells node is held with. The null nodes the sector
\* padding appends behind the configured cells are never read; when the
\* list is full, all of them but the newest are let go.
MaxYamlNodes == 3
\* Calls of reserve_encoder and reserve_decoder in one run.
MaxReserveCalls == 6

\* ------------------------------------------------------------- value sets
\* A TEID is a uint32_t, held as its four bytes, most significant first.
NoTeid == <<>>
\* TEIDs the peer announces for the downlink of a modified DRB.
PeerDlTeids == {77}
\* What a read past the end of an empty vector does: the process is
\* terminated, or some value is read.
UbValue(ub) == IF ub = "garbage" THEN 99 ELSE 0

SessionIds == 1..(MAX_NUM_PDU_SESSIONS_PER_UE + 1)
DrbIds == 1..MaxDrbId
UeIndexes == {0, 3}

Range(s) == {s[i] : i \in 1..Len(s)}

\* Sequences over S of length 0..n.
SeqUpTo(S, n) == UNION {[1..k -> S] : k \in 0..n}

\* A list of m QoS-flow ids, in descending order: 9, 8, ...
FlowList(m) == [i \in 1..m |-> 10 - i]
FlowLists == {FlowList(m) : m \in 0..MaxNofFlows}

\* e1ap_drb_to_setup_item_ng_ran: the fields the manager reads.
DrbToSetupItems == [drb_id : DrbIds, qos_flow_info_to_be_setup : FlowLists]
\* e1ap_drb_to_modify_item_ng_ran: dl_up_params is optional on the wire.
DrbToModifyItems == [drb_id : DrbIds, dl_up_params : SeqUpTo(PeerDlTeids, 1)]

\* ------------------------------------------------------------ TEID scheme
RECURSIVE BitOr(_, _)
BitOr(a, b) ==
  IF a = 0 THEN b
  ELSE IF b = 0 THEN a
  ELSE 2 * BitOr(a \div 2, b \div 2) + (IF a % 2 = 1 \/ b % 2 = 1 THEN 1 ELSE 0)

\* Conversion of an unsigned value to uint32_t.
U32(x) == <<(x \div 16777216) % 256, (x \div 65536) % 256, (x \div 256) % 256, x % 256>>

\* local_teid <<= 8U on a uint32_t: the top byte is shifted out.
Shl8(t) == <<t[2], t[3], t[4], 0>>

\* local_teid |= v on a uint32_t.
Or32(t, u) == [i \in 1..4 |-> BitOr(t[i], u[i])]

\* Variant: the UE index is not shifted.
allocate_local_teid_no_shift(ue, sid) == Or32(U32(ue), U32(sid))

allocate_local_teid(ue, sid) == Or32(Shl8(U32(ue)), U32(sid))

\* Variant: the second shift is missing, session id and DRB id overlap.
allocate_local_f1u_teid_one_shift(ue, sid, drb) ==
  Or32(Or32(Shl8(U32(ue)), U32(sid)), U32(drb))

allocate_local_f1u_teid(ue, sid, drb) ==
  Or32(Shl8(Or32(Shl8(U32(ue)), U32(sid))), U32(drb))

\* The two derivations of one manager, as a caller sees them.
allocate_local_teids(a) ==
  [n3 |-> allocate_local_teid(a.ue, a.sid),
   f1u |-> allocate_local_f1u_teid(a.ue, a.sid, a.drb)]

\* A call to a collaborator: name, TEID argument, two integer arguments.
Call(name, teid, a, b) == [name |-> name, teid |-> teid, a |-> a, b |-> b]

\* ---------------------------------------------------------------- state
VARIABLES
  ue_index,        \* pdu_session_manager_impl::ue_index
  pdu_sessions,    \* session id -> [local_teid, drbs, sdap]
  gtpu_rx_demux,   \* TEIDs registered at the shared demultiplexer
  f1u_gw,          \* uplink TEIDs with a bearer connected at the gateway
  psm_args,        \* arguments of the last call
  psm_result,      \* value returned by the last call
  psm_calls,       \* collaborator calls of the last call, in order
  psm_log,         \* error/warning lines of the last call, in order
  psm_crashed,     \* the process was terminated
  ue_ctxt_list,    \* CU-UP-side UE id -> [ue_index, cu_cp_ue_e1ap_id, level]
  cu_up_exec,      \* tasks queued at the CU-UP executor, oldest first
  e1_task,         \* the message whose task ran last, with what it read
  pdu_notifier,    \* messages the last task handed to the outbound notifier
  cu_up_notifier,  \* calls the last task made to the lifecycle manager
  e1_log,          \* error/warning lines of the last dispatcher step
  teid_args,       \* arguments of the TEID derivations under study
  teid_rets,       \* what the derivations done so far returned
  cu_up_exec_capacity,    \* tasks the CU-UP executor can hold
  transactions,           \* ev_mng->transactions: ids of the pending ones
  next_transaction_id,    \* id the next transaction gets
  e1_setup_procs,         \* transaction id -> E1 setup procedure launched on it
  nof_ldpc_enc_instances, \* bbdev_acc::nof_ldpc_enc_instances
  nof_ldpc_dec_instances, \* bbdev_acc::nof_ldpc_dec_instances
  bbdev_rets,             \* what the reserve calls made so far returned
  reserve_threads,        \* thread -> where it is in reserve_encoder
  node,                   \* the YAML::Node the configuration is written to
  config,                 \* the ru_sdr_unit_config being written
  yaml_pc                 \* where fill_ru_sdr_config_in_yaml_schema is

psm_vars == <<ue_index, pdu_sessions, gtpu_rx_demux, f1u_gw, psm_args,
              psm_result, psm_calls, psm_log, psm_crashed>>

e1_vars == <<ue_ctxt_list, cu_up_exec, e1_task, pdu_notifier, cu_up_notifier,
             e1_log>>

teid_vars == <<teid_args, teid_rets>>

txn_vars == <<transactions, next_transaction_id, e1_setup_procs>>

bbdev_vars == <<nof_ldpc_enc_instances, nof_ldpc_dec_instances, bbdev_rets>>

thread_vars == <<reserve_threads>>

yaml_vars == <<node, config, yaml_pc>>

vars == <<psm_vars, e1_vars, teid_vars, cu_up_exec_capacity, txn_vars,
          bbdev_vars, thread_vars, yaml_vars>>

\* What the operations of one component leave alone. The capacity of the
\* executor is fixed when it is built.
psm_frame ==
  UNCHANGED <<e1_vars, teid_vars, cu_up_exec_capacity, txn_vars, bbdev_vars,
              thread_vars, yaml_vars>>
e1_frame ==
  UNCHANGED <<psm_vars, teid_vars, cu_up_exec_capacity, bbdev_vars,
              thread_vars, yaml_vars>>
teid_frame ==
  UNCHANGED <<psm_vars, e1_vars, cu_up_exec_capacity, txn_vars, bbdev_vars,
              thread_vars, yaml_vars>>
bbdev_frame ==
  UNCHANGED <<psm_vars, e1_vars, teid_vars, cu_up_exec_capacity, txn_vars,
              thread_vars, yaml_vars>>
thread_frame ==
  UNCHANGED <<psm_vars, e1_vars, teid_vars, cu_up_exec_capacity, txn_vars,
              nof_ldpc_dec_instances, yaml_vars>>
yaml_frame ==
  UNCHANGED <<psm_vars, e1_vars, teid_vars, cu_up_exec_capacity, txn_vars,
              bbdev_vars, thread_vars>>

EmptyMap == [x \in {} |-> 0]

MapRemove(f, k) == [x \in (DOMAIN f) \ {k} |-> f[x]]

NoResult(op) ==
  [op |-> op, pdu_session_id |-> 0, success |-> FALSE, cause |-> "none",
   gtp_teid |-> NoTeid, drb_setup_results |-> <<>>,
   drb_modification_results |-> <<>>]

Args(sid, to_setup, to_modify, to_rem) ==
  [pdu_session_id |-> sid, drb_to_setup_list |-> to_setup,
   drb_to_modify_list |-> to_modify, drb_to_rem_list |-> to_rem]

NoArgs == Args(0, <<>>, <<>>, <<>>)

get_nof_pdu_sessions == Cardinality(DOMAIN pdu_sessions)

\* ------------------------------------------------------ SDAP (collaborator)
sdap_add_mapping(sdap, qfi, drb) ==
  IF \E m \in sdap : m[1] = qfi THEN sdap ELSE sdap \cup {<<qfi, drb>>}

sdap_remove_mapping(sdap, drb) == {m \in sdap : m[2] # drb}

RECURSIVE add_qos_flows_unmarked(_, _, _, _)
\* Variant: flow_result.success is left at false.
add_qos_flows_unmarked(acc, drb, flows, i) ==
  IF i > Len(flows) THEN acc
  ELSE add_qos_flows_unmarked(
         [ctx |-> [acc.ctx EXCEPT !.qos_flows = @ \cup {flows[i]}],
          sdap |-> sdap_add_mapping(acc.sdap, flows[i], drb),
          calls |-> Append(acc.calls, Call("add_mapping", NoTeid, flows[i], drb)),
          results |-> Append(acc.results,
                        [qos_flow_id |-> flows[i], success |-> FALSE,
                         cause |-> "radio_network"])],
         drb, flows, i + 1)

RECURSIVE add_qos_flows(_, _, _, _)
\* The loop over qos_flow_info_to_be_setup: acc = [ctx, sdap, calls, results].
add_qos_flows(acc, drb, flows, i) ==
  IF i > Len(flows) THEN acc
  ELSE add_qos_flows(
         [ctx |-> [acc.ctx EXCEPT !.qos_flows = @ \cup {flows[i]}],
          sdap |-> sdap_add_mapping(acc.sdap, flows[i], drb),
          calls |-> Append(acc.calls, Call("add_mapping", NoTeid, flows[i], drb)),
          results |-> Append(acc.results,
                        [qos_flow_id |-> flows[i], success |-> TRUE,
                         cause |-> "radio_network"])],
         drb, flows, i + 1)

\* The end of handle_drb_to_setup_item: fl is what the loop over the QoS
\* flows left; the DRB result is marked successful and returned.
drb_setup_result(acc, drb_id, f1u_ul_teid, fl) ==
  [acc EXCEPT !.sess = [@ EXCEPT !.drbs = (drb_id :> fl.ctx) @@ @,
                                 !.sdap = fl.sdap],
              !.f1u = @ \cup {f1u_ul_teid},
              !.calls = fl.calls,
              !.setup = Append(@, [drb_id |-> drb_id, success |-> TRUE,
                                   cause |-> "radio_network",
                                   gtp_teid |-> f1u_ul_teid,
                                   qos_flow_results |-> fl.results])]

\* The DRB context of drb_id after the F1-U bearer was created; emplace
\* keeps an existing context.
drb_context(drbs, drb_id, f1u_ul_teid) ==
  [f1u_ul_teid |-> f1u_ul_teid,
   qos_flows |-> IF drb_id \in DOMAIN drbs THEN drbs[drb_id].qos_flows ELSE {}]

\* acc = [sess, f1u, calls, log, setup, modif, crashed]
create_drb(acc, item, f1u_ul_teid) ==
  drb_setup_result(acc, item.drb_id, f1u_ul_teid,
    add_qos_flows(
      [ctx |-> drb_context(acc.sess.drbs, item.drb_id, f1u_ul_teid),
       sdap |-> acc.sess.sdap,
       calls |-> Append(acc.calls, Call("create_cu_bearer", f1u_ul_teid, 0, 0)),
       results |-> <<>>],
      item.drb_id, item.qos_flow_info_to_be_setup, 1))

handle_drb_to_setup_item(acc, sid, item) ==
  create_drb(acc, item, allocate_local_f1u_teid(ue_index, sid, item.drb_id))

RECURSIVE setup_drbs(_, _, _, _)
setup_drbs(acc, sid, items, i) ==
  IF i > Len(items) THEN acc
  ELSE setup_drbs(handle_drb_to_setup_item(acc, sid, items[i]), sid, items, i + 1)

\* Variant: an unknown DRB id is skipped without a result.
modify_drb_item_skip(acc, item, ub) ==
  IF acc.crashed \/ item.drb_id \notin DOMAIN acc.sess.drbs THEN acc
  ELSE IF Len(item.dl_up_params) = 0 /\ ub = "crash"
  THEN [acc EXCEPT !.crashed = TRUE]
  ELSE [acc EXCEPT
          !.calls = Append(@, Call("attach_dl_teid",
                             acc.sess.drbs[item.drb_id].f1u_ul_teid,
                             IF Len(item.dl_up_params) = 0 THEN UbValue(ub)
                             ELSE item.dl_up_params[1], 0)),
          !.modif = Append(@, [drb_id |-> item.drb_id, success |-> TRUE,
                               cause |-> "radio_network", gtp_teid |-> NoTeid,
                               qos_flow_results |-> <<>>])]

\* One item of the to-modify list. ub is what the read of dl_up_params[0]
\* of an empty list does: "crash", or "garbage" (some value is read).
modify_drb_item(acc, item, ub) ==
  LET drbs == acc.sess.drbs
      fail == [drb_id |-> item.drb_id, success |-> FALSE,
               cause |-> "radio_network", gtp_teid |-> NoTeid,
               qos_flow_results |-> <<>>]
  IN IF acc.crashed THEN acc
     ELSE IF item.drb_id \notin DOMAIN drbs
     THEN [acc EXCEPT !.log = Append(@, "Cannot modify DRB"),
                      !.setup = Append(@, fail)]
     ELSE IF Len(item.dl_up_params) = 0 /\ ub = "crash"
     THEN [acc EXCEPT !.crashed = TRUE]
     ELSE LET dl == IF Len(item.dl_up_params) = 0 THEN UbValue(ub)
                    ELSE item.dl_up_params[1]
          IN [acc EXCEPT
                !.calls = Append(@, Call("attach_dl_teid",
                                   drbs[item.drb_id].f1u_ul_teid, dl, 0)),
                !.modif = Append(@, [fail EXCEPT !.success = TRUE])]

RECURSIVE modify_drbs(_, _, _, _)
modify_drbs(acc, items, ub, i) ==
  IF i > Len(items) THEN acc
  ELSE modify_drbs(modify_drb_item(acc, items[i], ub), items, ub, i + 1)

\* Variant: the DRB context is erased before its QoS flows are unmapped.
remove_drb_item_erase_first(acc, drb) ==
  IF acc.crashed THEN acc
  ELSE IF drb \notin DOMAIN acc.sess.drbs
  THEN [acc EXCEPT !.sess = [@ EXCEPT !.sdap = sdap_remove_mapping(@, drb)],
                   !.calls = Append(@, Call("remove_mapping", NoTeid, drb, 0)),
                   !.log = Append(@, "Cannot remove DRB")]
  ELSE [acc EXCEPT
          !.sess = [@ EXCEPT !.drbs = MapRemove(@, drb),
                             !.sdap = sdap_remove_mapping(@, drb)],
          !.calls = @ \o <<Call("erase_drb", NoTeid, drb, 0),
                           Call("remove_mapping", NoTeid, drb, 0)>>]

\* One item of the to-remove list.
remove_drb_item(acc, drb) ==
  LET unmapped == [acc EXCEPT
                     !.sess = [@ EXCEPT !.sdap = sdap_remove_mapping(@, drb)],
                     !.calls = Append(@, Call("remove_mapping", NoTeid, drb, 0))]
  IN IF acc.crashed THEN acc
     ELSE IF drb \notin DOMAIN acc.sess.drbs
     THEN [unmapped EXCEPT !.log = Append(@, "Cannot remove DRB")]
     ELSE [unmapped EXCEPT
             !.sess = [@ EXCEPT !.drbs = MapRemove(@, drb)],
             !.calls = Append(@, Call("erase_drb", NoTeid, drb, 0))]

RECURSIVE remove_drbs(_, _, _)
remove_drbs(acc, items, i) ==
  IF i > Len(items) THEN acc
  ELSE remove_drbs(remove_drb_item(acc, items[i]), items, i + 1)

\* No call is in progress and the process is alive.
PsmIdle == ~psm_crashed /\ psm_result.op = "idle"

\* The caller takes the returned value; the next call starts from here.
psm_return ==
  /\ ~psm_crashed
  /\ psm_result.op # "idle"
  /\ psm_result' = NoResult("idle")
  /\ psm_args' = NoArgs
  /\ psm_calls' = <<>>
  /\ psm_log' = <<>>
  /\ UNCHANGED <<ue_index, pdu_sessions, gtpu_rx_demux, f1u_gw, psm_crashed>>
  /\ psm_frame

NewAcc(sess) ==
  [sess |-> sess, f1u |-> f1u_gw, calls |-> <<>>, log |-> <<>>,
   setup |-> <<>>, modif |-> <<>>, crashed |-> FALSE]

\* ------------------------------------------------------------- operations
\* pdu_session_result as setup_pdu_session prepares it.
new_setup_result(sid) ==
  [NoResult("setup") EXCEPT !.pdu_session_id = sid, !.cause = "radio_network"]

\* Variant: the cause of the setup result is used.
new_modification_result_radio(sid) ==
  [NoResult("modify") EXCEPT !.pdu_session_id = sid, !.cause = "radio_network"]

\* pdu_session_result as modify_pdu_session prepares it.
new_modification_result(sid) ==
  [NoResult("modify") EXCEPT !.pdu_session_id = sid, !.cause = "misc"]

\* Variant: the lookup is missing.
pdu_session_exists_never(sid) == FALSE

\* pdu_sessions.find(session.pdu_session_id) != pdu_sessions.end()
pdu_session_exists(sid) == sid \in DOMAIN pdu_sessions

\* Variant: off by one.
max_sessions_reached_late == get_nof_pdu_sessions > MAX_NUM_PDU_SESSIONS_PER_UE

\* pdu_sessions.size() >= MAX_NUM_PDU_SESSIONS_PER_UE
max_sessions_reached == get_nof_pdu_sessions >= MAX_NUM_PDU_SESSIONS_PER_UE

\* gtpu_demux_ctrl::add_tunnel: a TEID is registered once.
add_tunnel(teid) == teid \notin gtpu_rx_demux

\* The session as emplaced at line 135, with its local TEID.
new_pdu_session(sid, local_teid) ==
  [pdu_session_id |-> sid, local_teid |-> local_teid, drbs |-> EmptyMap,
   sdap |-> {}]

\* setup_pdu_session from the checks on; done is what the loop over the
\* DRB list leaves when it is reached.
setup_pdu_session_body(sid, fail, local_teid, new_session, done) ==
  /\ IF pdu_session_exists(sid)
     THEN /\ psm_result' = fail
          /\ psm_log' = <<"already exists">>
          /\ psm_calls' = <<>>
          /\ UNCHANGED <<pdu_sessions, gtpu_rx_demux, f1u_gw>>
     ELSE IF max_sessions_reached
     THEN /\ psm_result' = fail
          /\ psm_log' = <<"max number of PDU sessions reached">>
          /\ psm_calls' = <<>>
          /\ UNCHANGED <<pdu_sessions, gtpu_rx_demux, f1u_gw>>
     ELSE IF ~add_tunnel(local_teid)
     THEN \* add_tunnel returned false; the session emplaced at line 135 stays
          /\ pdu_sessions' = (sid :> new_session) @@ pdu_sessions
          /\ psm_result' = [fail EXCEPT !.gtp_teid = local_teid]
          /\ psm_log' = <<"TEID already exists">>
          /\ psm_calls' = <<Call("add_tunnel", local_teid, 0, 0)>>
          /\ UNCHANGED <<gtpu_rx_demux, f1u_gw>>
     ELSE /\ pdu_sessions' = (sid :> done.sess) @@ pdu_sessions
          /\ gtpu_rx_demux' = gtpu_rx_demux \cup {local_teid}
          /\ f1u_gw' = done.f1u
          /\ psm_result' = [fail EXCEPT !.success = TRUE,
                                        !.gtp_teid = local_teid,
                                        !.drb_setup_results = done.setup]
          /\ psm_log' = <<>>
          /\ psm_calls' = <<Call("add_tunnel", local_teid, 0, 0)>> \o done.calls

setup_pdu_session(sid, drb_to_setup_list) ==
  /\ PsmIdle
  /\ psm_args' = Args(sid, drb_to_setup_list, <<>>, <<>>)
  /\ setup_pdu_session_body(
       sid, new_setup_result(sid), allocate_local_teid(ue_index, sid),
       new_pdu_session(sid, allocate_local_teid(ue_index, sid)),
       setup_drbs(NewAcc(new_pdu_session(sid, allocate_local_teid(ue_index, sid))),
                  sid, drb_to_setup_list, 1))
  /\ UNCHANGED <<ue_index, psm_crashed>>
  /\ psm_frame

\* modify_pdu_session from the check on; a3 is what the three loops leave
\* when they are reached.
modify_pdu_session_body(sid, fail, a3) ==
  /\ IF sid \notin DOMAIN pdu_sessions
     THEN /\ psm_result' = fail
          /\ psm_log' = <<"doesn't exists">>
          /\ psm_calls' = <<>>
          /\ UNCHANGED <<pdu_sessions, f1u_gw, psm_crashed>>
     ELSE IF a3.crashed
     THEN /\ psm_crashed' = TRUE
          /\ psm_result' = [NoResult("crashed") EXCEPT !.pdu_session_id = sid]
          /\ psm_log' = a3.log
          /\ psm_calls' = a3.calls
          /\ pdu_sessions' = [pdu_sessions EXCEPT ![sid] = a3.sess]
          /\ f1u_gw' = a3.f1u
     ELSE /\ pdu_sessions' = [pdu_sessions EXCEPT ![sid] = a3.sess]
          /\ f1u_gw' = a3.f1u
          /\ psm_result' = [fail EXCEPT !.success = TRUE,
                                        !.drb_setup_results = a3.setup,
                                        !.drb_modification_results = a3.modif]
          /\ psm_log' = a3.log
          /\ psm_calls' = a3.calls
          /\ UNCHANGED psm_crashed

modify_pdu_session(sid, to_setup, to_modify, to_rem, ub) ==
  /\ PsmIdle
  /\ psm_args' = Args(sid, to_setup, to_modify, to_rem)
  /\ modify_pdu_session_body(
       sid, new_modification_result(sid),
       remove_drbs(
         modify_drbs(
           setup_drbs(NewAcc(pdu_sessions[sid]), sid, to_setup, 1),
           to_modify, ub, 1),
         to_rem, 1))
  /\ UNCHANGED <<ue_index, gtpu_rx_demux>>
  /\ psm_frame

\* Variant: only the bearer of the first DRB is disconnected.
disconnect_calls_first_only(drbs) ==
  IF DOMAIN drbs = {} THEN <<>>
  ELSE LET d == CHOOSE x \in DOMAIN drbs : \A y \in DOMAIN drbs : x <= y
       IN <<Call("disconnect_cu_bearer", drbs[d].f1u_ul_teid, 0, 0)>>

RECURSIVE disconnect_calls(_)
\* std::map iterates the DRBs in ascending id order.
disconnect_calls(drbs) ==
  IF DOMAIN drbs = {} THEN <<>>
  ELSE LET d == CHOOSE x \in DOMAIN drbs : \A y \in DOMAIN drbs : x <= y
       IN <<Call("disconnect_cu_bearer", drbs[d].f1u_ul_teid, 0, 0)>>
            \o disconnect_calls(MapRemove(drbs, d))

\* Variant: the bearers are disconnected but the session is not erased.
remove_pdu_session_keeps_session(sid) ==
  /\ PsmIdle
  /\ psm_args' = Args(sid, <<>>, <<>>, <<>>)
  /\ psm_result' = [NoResult("remove") EXCEPT !.pdu_session_id = sid]
  /\ IF sid \notin DOMAIN pdu_sessions
     THEN /\ psm_log' = <<"not found">>
          /\ psm_calls' = <<>>
          /\ UNCHANGED <<pdu_sessions, gtpu_rx_demux, f1u_gw>>
     ELSE LET s == pdu_sessions[sid]
          IN /\ f1u_gw' = f1u_gw \ {s.drbs[d].f1u_ul_teid : d \in DOMAIN s.drbs}
             /\ psm_log' = <<>>
             /\ psm_calls' = disconnect_calls(s.drbs)
             /\ UNCHANGED <<pdu_sessions, gtpu_rx_demux>>
  /\ UNCHANGED <<ue_index, psm_crashed>>
  /\ psm_frame

remove_pdu_session(sid) ==
  /\ PsmIdle
  /\ psm_args' = Args(sid, <<>>, <<>>, <<>>)
  /\ psm_result' = [NoResult("remove") EXCEPT !.pdu_session_id = sid]
  /\ IF sid \notin DOMAIN pdu_sessions
     THEN /\ psm_log' = <<"not found">>
          /\ psm_calls' = <<>>
          /\ UNCHANGED <<pdu_sessions, gtpu_rx_demux, f1u_gw>>
     ELSE LET s == pdu_sessions[sid]
          IN /\ f1u_gw' = f1u_gw \ {s.drbs[d].f1u_ul_teid : d \in DOMAIN s.drbs}
             /\ pdu_sessions' = MapRemove(pdu_sessions, sid)
             \* ~pdu_session() deregisters the local TEID
             /\ gtpu_rx_demux' = gtpu_rx_demux \ {s.local_teid}
             /\ psm_log' = <<>>
             /\ psm_calls' = disconnect_calls(s.drbs)
                               \o <<Call("remove_tunnel", s.local_teid, 0, 0)>>
  /\ UNCHANGED <<ue_index, psm_crashed>>
  /\ psm_frame

\* Another user of the shared demultiplexer registers a TEID.
OwnTeids == {pdu_sessions[s].local_teid : s \in DOMAIN pdu_sessions}

demux_foreign_add(teid) ==
  /\ PsmIdle
  /\ teid \notin gtpu_rx_demux
  /\ Cardinality(gtpu_rx_demux \ OwnTeids) < MaxForeignTunnels
  /\ gtpu_rx_demux' = gtpu_rx_demux \cup {teid}
  /\ UNCHANGED <<ue_index, pdu_sessions, f1u_gw, psm_args, psm_result,
                 psm_calls, psm_log, psm_crashed>>
  /\ psm_frame

\* ------------------------------------------------------ E1AP dispatcher
CuUpIds == 0..(MAX_NOF_UES - 1)
E1UeIndexes == 0..(MAX_NOF_UES - 1)
INVALID_UE_INDEX == MAX_NOF_UES
\* gnb_cu_up_ue_e1ap_id_t::invalid
InvalidCuUpId == MAX_NOF_UES
CuCpIds == 1..MaxCuCpId
ActivityLevels == {"ue", "pdu_session", "drb"}
InitProcs == {"bearer_context_setup_request", "bearer_context_mod_request",
              "bearer_context_release_cmd", "other"}

\* A decoded message as the dispatcher classifies it. The setup request has
\* no CU-UP-side id.
E1Messages ==
  {m \in [pdu : {"init_msg"}, proc : InitProcs, cu_cp : CuCpIds,
          cu_up : CuUpIds \cup {InvalidCuUpId}] :
     /\ m.proc = "bearer_context_setup_request" => m.cu_up = 0
     /\ m.proc = "other" => m.cu_up = 0 /\ m.cu_cp = 1}

\* Causes a release command carries (msg->cause).
ReleaseCauses == {"radio_network", "misc"}

\* What a handler reads from the body of a message: the outcome of the
\* validity check, the flavor of the system bearer context, the activity
\* notification level. The body is read by the handler only, so it is drawn
\* when the task runs.
E1Bodies(proc) ==
  {b \in [valid : BOOLEAN, sys_bearer : {"absent", "ng_ran", "e_utran"},
          level : ActivityLevels, cause : {"none"} \cup ReleaseCauses] :
     \* fields a handler does not read are left at their defaults
     /\ proc # "bearer_context_setup_request" => b.valid /\ b.level = "ue"
     /\ proc # "bearer_context_mod_request" => b.sys_bearer = "absent"
     /\ (proc = "bearer_context_release_cmd") <=> (b.cause # "none")}

\* optional<uint8_t> without a value
NoTransactionId == -1

NoTask == [pdu |-> "none", proc |-> "none", cu_cp |-> 0, cu_up |-> 0,
           valid |-> TRUE, sys_bearer |-> "absent", level |-> "ue",
           cause |-> "none", transaction_id |-> NoTransactionId,
           ue_index |-> INVALID_UE_INDEX]

Task(m, body) ==
  [pdu |-> m.pdu, proc |-> m.proc, cu_cp |-> m.cu_cp, cu_up |-> m.cu_up,
   valid |-> body.valid, sys_bearer |-> body.sys_bearer, level |-> body.level,
   cause |-> body.cause, transaction_id |-> NoTransactionId,
   ue_index |-> INVALID_UE_INDEX]

\* An E1AP message handed to the outbound notifier.
E1Out(type, cu_cp, cu_up, cause) ==
  [type |-> type, cu_cp |-> cu_cp, cu_up |-> cu_up, cause |-> cause]

\* A call to the lifecycle manager (cu_up_notifier).
CuUpCall(name, idx, cause) == [name |-> name, ue_index |-> idx, cause |-> cause]

\* -------- e1ap_ue_context_list
next_gnb_cu_up_ue_e1ap_id ==
  IF Cardinality(DOMAIN ue_ctxt_list) >= MAX_NOF_UES THEN InvalidCuUpId
  ELSE CHOOSE i \in CuUpIds \ DOMAIN ue_ctxt_list :
         \A j \in CuUpIds \ DOMAIN ue_ctxt_list : i <= j

add_ue(list, idx, cu_up_id, cu_cp_id, level) ==
  (cu_up_id :> [ue_index |-> idx, cu_cp_ue_e1ap_id |-> cu_cp_id,
                activity_notification_level |-> level]) @@ list

remove_ue(list, idx) ==
  [i \in {j \in DOMAIN list : list[j].ue_index # idx} |-> list[i]]

LiveUeIndexes == {ue_ctxt_list[i].ue_index : i \in DOMAIN ue_ctxt_list}

\* -------- answers of the lifecycle manager
\* A setup is answered with the index of a UE the manager created, or with
\* the invalid index.
SetupResponses ==
  {r \in [ue_index : (E1UeIndexes \ LiveUeIndexes) \cup {INVALID_UE_INDEX},
          success : BOOLEAN, cause : {"none", "radio_network", "misc"}] :
     (r.cause = "none") <=> r.success}

ModificationResponses(idx) ==
  {r \in [ue_index : {idx, INVALID_UE_INDEX},
          success : BOOLEAN, cause : {"none", "radio_network", "misc"}] :
     (r.cause = "none") <=> r.success}

\* -------- handlers; each yields [ues, sent, calls, log]
E1Done(ues, sent, calls, log) ==
  [ues |-> ues, sent |-> sent, calls |-> calls, log |-> log]

\* Variant: the early return on an invalid UE index sends nothing.
handle_bearer_context_setup_request_silent(t, resp) ==
  LET fail0 == E1Out("BearerContextSetupFailure", t.cu_cp, 0, "protocol")
      cu_up_ue_e1ap_id == next_gnb_cu_up_ue_e1ap_id
      fail1 == [fail0 EXCEPT !.cu_up = cu_up_ue_e1ap_id]
      call == CuUpCall("on_bearer_context_setup_request_received",
                       INVALID_UE_INDEX, "none")
      added == add_ue(ue_ctxt_list, resp.ue_index, cu_up_ue_e1ap_id, t.cu_cp, t.level)
  IN IF ~t.valid
     THEN E1Done(ue_ctxt_list, <<fail0>>, <<>>, <<>>)
     ELSE IF cu_up_ue_e1ap_id = InvalidCuUpId
     THEN E1Done(ue_ctxt_list, <<fail0>>, <<>>, <<"No CU-UP-UE-E1AP-ID available">>)
     ELSE IF resp.ue_index = INVALID_UE_INDEX
     THEN E1Done(ue_ctxt_list, <<>>, <<call>>, <<"Invalid UE index">>)
     ELSE IF resp.success
     THEN E1Done(added,
                 <<E1Out("BearerContextSetupResponse", t.cu_cp, cu_up_ue_e1ap_id, "none")>>,
                 <<call>>, <<>>)
     ELSE E1Done(added, <<[fail1 EXCEPT !.cause = resp.cause]>>, <<call>>, <<>>)

\* Variant: the request is forwarded without the validity check.
handle_bearer_context_setup_request_unchecked(t, resp) ==
  LET fail0 == E1Out("BearerContextSetupFailure", t.cu_cp, 0, "protocol")
      cu_up_ue_e1ap_id == next_gnb_cu_up_ue_e1ap_id
      fail1 == [fail0 EXCEPT !.cu_up = cu_up_ue_e1ap_id]
      call == CuUpCall("on_bearer_context_setup_request_received",
                       INVALID_UE_INDEX, "none")
      added == add_ue(ue_ctxt_list, resp.ue_index, cu_up_ue_e1ap_id, t.cu_cp, t.level)
  IN IF cu_up_ue_e1ap_id = InvalidCuUpId
     THEN E1Done(ue_ctxt_list, <<fail0>>, <<>>, <<"No CU-UP-UE-E1AP-ID available">>)
     ELSE IF resp.ue_index = INVALID_UE_INDEX
     THEN E1Done(ue_ctxt_list, <<fail1>>, <<call>>, <<"Invalid UE index">>)
     ELSE IF resp.success
     THEN E1Done(added,
                 <<E1Out("BearerContextSetupResponse", t.cu_cp, cu_up_ue_e1ap_id, "none")>>,
                 <<call>>, <<>>)
     ELSE E1Done(added, <<[fail1 EXCEPT !.cause = resp.cause]>>, <<call>>, <<>>)

\* Variant: the id is the number of live contexts, not asked of the list.
handle_bearer_context_setup_request_count_id(t, resp) ==
  LET fail0 == E1Out("BearerContextSetupFailure", t.cu_cp, 0, "protocol")
      cu_up_ue_e1ap_id == Cardinality(DOMAIN ue_ctxt_list)
      fail1 == [fail0 EXCEPT !.cu_up = cu_up_ue_e1ap_id]
      call == CuUpCall("on_bearer_context_setup_request_received",
                       INVALID_UE_INDEX, "none")
      added == add_ue(ue_ctxt_list, resp.ue_index, cu_up_ue_e1ap_id, t.cu_cp, t.level)
  IN IF ~t.valid
     THEN E1Done(ue_ctxt_list, <<fail0>>, <<>>, <<>>)
     ELSE IF cu_up_ue_e1ap_id = InvalidCuUpId
     THEN E1Done(ue_ctxt_list, <<fail0>>, <<>>, <<"No CU-UP-UE-E1AP-ID available">>)
     ELSE IF resp.ue_index = INVALID_UE_INDEX
     THEN E1Done(ue_ctxt_list, <<fail1>>, <<call>>, <<"Invalid UE index">>)
     ELSE IF resp.success
     THEN E1Done(added,
                 <<E1Out("BearerContextSetupResponse", t.cu_cp, cu_up_ue_e1ap_id, "none")>>,
                 <<call>>, <<>>)
     ELSE E1Done(added, <<[fail1 EXCEPT !.cause = resp.cause]>>, <<call>>, <<>>)

handle_bearer_context_setup_request(t, resp) ==
  LET fail0 == E1Out("BearerContextSetupFailure", t.cu_cp, 0, "protocol")
      cu_up_ue_e1ap_id == next_gnb_cu_up_ue_e1ap_id
      fail1 == [fail0 EXCEPT !.cu_up = cu_up_ue_e1ap_id]
      call == CuUpCall("on_bearer_context_setup_request_received",
                       INVALID_UE_INDEX, "none")
      added == add_ue(ue_ctxt_list, resp.ue_index, cu_up_ue_e1ap_id, t.cu_cp, t.level)
  IN IF ~t.valid
     THEN E1Done(ue_ctxt_list, <<fail0>>, <<>>, <<>>)
     ELSE IF cu_up_ue_e1ap_id = InvalidCuUpId
     THEN E1Done(ue_ctxt_list, <<fail0>>, <<>>, <<"No CU-UP-UE-E1AP-ID available">>)
     ELSE IF resp.ue_index = INVALID_UE_INDEX
     THEN E1Done(ue_ctxt_list, <<fail1>>, <<call>>, <<"Invalid UE index">>)
     ELSE IF resp.success
     THEN E1Done(added,
                 <<E1Out("BearerContextSetupResponse", t.cu_cp, cu_up_ue_e1ap_id, "none")>>,
                 <<call>>, <<>>)
     ELSE E1Done(added, <<[fail1 EXCEPT !.cause = resp.cause]>>, <<call>>, <<>>)

\* Variant: a request for an unknown UE is forwarded to the lifecycle
\* manager before it is failed.
handle_bearer_context_modification_request_no_lookup(t, resp) ==
  LET fail == E1Out("BearerContextModificationFailure", t.cu_cp, t.cu_up, "protocol")
      call == CuUpCall("on_bearer_context_modification_request_received",
                       ue_ctxt_list[t.cu_up].ue_index, "none")
      blind == CuUpCall("on_bearer_context_modification_request_received",
                        INVALID_UE_INDEX, "none")
  IN IF t.cu_up \notin DOMAIN ue_ctxt_list
     THEN E1Done(ue_ctxt_list, <<fail>>, <<blind>>, <<"UE context not available">>)
     ELSE IF t.sys_bearer = "e_utran"
     THEN E1Done(ue_ctxt_list, <<fail>>, <<>>, <<"Not handling E-UTRAN Bearers">>)
     ELSE IF resp.ue_index = INVALID_UE_INDEX
     THEN E1Done(ue_ctxt_list, <<fail>>, <<call>>, <<>>)
     ELSE IF resp.success
     THEN E1Done(ue_ctxt_list,
                 <<E1Out("BearerContextModificationResponse", t.cu_cp, t.cu_up, "none")>>,
                 <<call>>, <<>>)
     ELSE E1Done(ue_ctxt_list, <<[fail EXCEPT !.cause = resp.cause]>>, <<call>>, <<>>)

\* Variant: the flavor of the system bearer context is not looked at.
handle_bearer_context_modification_request_any_flavor(t, resp) ==
  LET fail == E1Out("BearerContextModificationFailure", t.cu_cp, t.cu_up, "protocol")
      call == CuUpCall("on_bearer_context_modification_request_received",
                       ue_ctxt_list[t.cu_up].ue_index, "none")
  IN IF t.cu_up \notin DOMAIN ue_ctxt_list
     THEN E1Done(ue_ctxt_list, <<fail>>, <<>>, <<"UE context not available">>)
     ELSE IF resp.ue_index = INVALID_UE_INDEX
     THEN E1Done(ue_ctxt_list, <<fail>>, <<call>>, <<>>)
     ELSE IF resp.success
     THEN E1Done(ue_ctxt_list,
                 <<E1Out("BearerContextModificationResponse", t.cu_cp, t.cu_up, "none")>>,
                 <<call>>, <<>>)
     ELSE E1Done(ue_ctxt_list, <<[fail EXCEPT !.cause = resp.cause]>>, <<call>>, <<>>)

\* Variant: the success response is sent without the CU-UP-side id of the
\* request.
handle_bearer_context_modification_request_no_cu_up_id(t, resp) ==
  LET fail == E1Out("BearerContextModificationFailure", t.cu_cp, t.cu_up, "protocol")
      call == CuUpCall("on_bearer_context_modification_request_received",
                       ue_ctxt_list[t.cu_up].ue_index, "none")
  IN IF t.cu_up \notin DOMAIN ue_ctxt_list
     THEN E1Done(ue_ctxt_list, <<fail>>, <<>>, <<"UE context not available">>)
     ELSE IF t.sys_bearer = "e_utran"
     THEN E1Done(ue_ctxt_list, <<fail>>, <<>>, <<"Not handling E-UTRAN Bearers">>)
     ELSE IF resp.ue_index = INVALID_UE_INDEX
     THEN E1Done(ue_ctxt_list, <<fail>>, <<call>>, <<>>)
     ELSE IF resp.success
     THEN E1Done(ue_ctxt_list,
                 <<E1Out("BearerContextModificationResponse", t.cu_cp, 0, "none")>>,
                 <<call>>, <<>>)
     ELSE E1Done(ue_ctxt_list, <<[fail EXCEPT !.cause = resp.cause]>>, <<call>>, <<>>)

handle_bearer_context_modification_request(t, resp) ==
  LET fail == E1Out("BearerContextModificationFailure", t.cu_cp, t.cu_up, "protocol")
      call == CuUpCall("on_bearer_context_modification_request_received",
                       ue_ctxt_list[t.cu_up].ue_index, "none")
  IN IF t.cu_up \notin DOMAIN ue_ctxt_list
     THEN E1Done(ue_ctxt_list, <<fail>>, <<>>, <<"UE context not available">>)
     ELSE IF t.sys_bearer = "e_utran"
     THEN E1Done(ue_ctxt_list, <<fail>>, <<>>, <<"Not handling E-UTRAN Bearers">>)
     ELSE IF resp.ue_index = INVALID_UE_INDEX
     THEN E1Done(ue_ctxt_list, <<fail>>, <<call>>, <<>>)
     ELSE IF resp.success
     THEN E1Done(ue_ctxt_list,
                 <<E1Out("BearerContextModificationResponse", t.cu_cp, t.cu_up, "none")>>,
                 <<call>>, <<>>)
     ELSE E1Done(ue_ctxt_list, <<[fail EXCEPT !.cause = resp.cause]>>, <<call>>, <<>>)

\* Variant: the UE context is kept.
handle_bearer_context_release_command_keeps_ue(t) ==
  IF t.cu_up \notin DOMAIN ue_ctxt_list
  THEN E1Done(ue_ctxt_list, <<>>, <<>>, <<"No UE context">>)
  ELSE LET idx == ue_ctxt_list[t.cu_up].ue_index
       IN E1Done(ue_ctxt_list,
                 <<E1Out("BearerContextReleaseComplete", t.cu_cp, t.cu_up, "none")>>,
                 <<CuUpCall("on_bearer_context_release_command_received", idx, t.cause)>>,
                 <<>>)

handle_bearer_context_release_command(t) ==
  IF t.cu_up \notin DOMAIN ue_ctxt_list
  THEN E1Done(ue_ctxt_list, <<>>, <<>>, <<"No UE context">>)
  ELSE LET idx == ue_ctxt_list[t.cu_up].ue_index
       IN E1Done(remove_ue(ue_ctxt_list, idx),
                 <<E1Out("BearerContextReleaseComplete", t.cu_cp, t.cu_up, "none")>>,
                 <<CuUpCall("on_bearer_context_release_command_received", idx, t.cause)>>,
                 <<>>)

\* -------- transactions and the E1 setup procedure
\* Ids an outcome of the E1 setup procedure can carry: the ids a run issues
\* and one that is never issued.
TransactionIds == 0..MaxTransactions

\* Outcomes the peer sends: those of the E1 setup procedure carry a
\* transaction id, those of any other procedure carry none.
E1Outcomes ==
  {m \in [pdu : {"successful_outcome", "unsuccessful_outcome"},
          proc : {"gnb_cu_up_e1_setup", "other"}, cu_cp : {0}, cu_up : {0},
          transaction_id : TransactionIds \cup {NoTransactionId}] :
     (m.proc = "other") <=> (m.transaction_id = NoTransactionId)}

OutcomeTask(m) ==
  [NoTask EXCEPT !.pdu = m.pdu, !.proc = m.proc,
                 !.transaction_id = m.transaction_id]

\* get_transaction_id: the id the outcome carries, if it carries one.
get_transaction_id(t) == t.transaction_id

\* A procedure suspended on its transaction.
SuspendedProc == [state |-> "suspended", result |-> "none", resumed |-> 0]

\* The suspended procedure is resumed with the outcome and runs to its end.
resume(procs, tid, result) ==
  [procs EXCEPT ![tid] = [state |-> "done", result |-> result,
                          resumed |-> @.resumed + 1]]

\* What an outcome handler leaves: the pending transactions, the
\* procedures, the log lines.
TxnDone(pending, procs, log) ==
  [pending |-> pending, procs |-> procs, log |-> log]

\* transactions.set_response: resolves the pending transaction of that id
\* and resumes its procedure; refuses when no such transaction is pending.
set_response(tid, result) ==
  IF tid \in transactions
  THEN TxnDone(transactions \ {tid}, resume(e1_setup_procs, tid, result), <<>>)
  ELSE TxnDone(transactions, e1_setup_procs, <<"Unexpected transaction id">>)

\* Variant: an outcome without a transaction id is taken for one of id 0.
handle_successful_outcome_default_id(t) ==
  LET transaction_id == get_transaction_id(t)
  IN IF transaction_id = NoTransactionId
     THEN set_response(0, "success")
     ELSE set_response(transaction_id, "success")

handle_successful_outcome(t) ==
  LET transaction_id == get_transaction_id(t)
  IN IF transaction_id = NoTransactionId
     THEN TxnDone(transactions, e1_setup_procs,
                  <<"Successful outcome is not supported">>)
     ELSE set_response(transaction_id, "success")

\* Variant: the outcome is delivered to the procedure of that id whether
\* or not its transaction is still pending.
handle_unsuccessful_outcome_again(t) ==
  LET transaction_id == get_transaction_id(t)
  IN IF transaction_id = NoTransactionId
     THEN TxnDone(transactions, e1_setup_procs,
                  <<"Unsuccessful outcome is not supported">>)
     ELSE IF transaction_id \in DOMAIN e1_setup_procs
     THEN TxnDone(transactions \ {transaction_id},
                  resume(e1_setup_procs, transaction_id, "failure"), <<>>)
     ELSE TxnDone(transactions, e1_setup_procs, <<"Unexpected transaction id">>)

handle_unsuccessful_outcome(t) ==
  LET transaction_id == get_transaction_id(t)
  IN IF transaction_id = NoTransactionId
     THEN TxnDone(transactions, e1_setup_procs,
                  <<"Unsuccessful outcome is not supported">>)
     ELSE set_response(transaction_id, "failure")

\* The request the E1 setup procedure sends.
E1SetupRequestOut(tid) ==
  [type |-> "GNBCUUPE1SetupRequest", cu_cp |-> 0, cu_up |-> 0,
   cause |-> "none", transaction_id |-> tid]

\* -------- dispatcher
\* The executor is between tasks and the last task's output has left.
E1Idle == e1_task.pdu = "none" /\ e1_log = <<>>

\* The outbound notifier and the lifecycle manager have taken what the last
\* task handed them.
e1_return ==
  /\ ~E1Idle
  /\ e1_task' = NoTask
  /\ pdu_notifier' = <<>>
  /\ cu_up_notifier' = <<>>
  /\ e1_log' = <<>>
  /\ UNCHANGED <<ue_ctxt_list, cu_up_exec, txn_vars>>
  /\ e1_frame

\* Variant: a task the executor refused is queued all the same.
handle_message_keep(m) ==
  /\ E1Idle
  /\ cu_up_exec' = Append(cu_up_exec, m)
  /\ e1_log' = IF Len(cu_up_exec) < cu_up_exec_capacity THEN <<>>
               ELSE <<"Discarding E1AP PDU">>
  /\ UNCHANGED <<ue_ctxt_list, e1_task, pdu_notifier, cu_up_notifier, txn_vars>>
  /\ e1_frame

\* Variant: the task is put before the tasks that wait.
handle_message_front(m) ==
  /\ E1Idle
  /\ IF Len(cu_up_exec) < cu_up_exec_capacity
     THEN /\ cu_up_exec' = <<m>> \o cu_up_exec
          /\ e1_log' = <<>>
     ELSE /\ e1_log' = <<"Discarding E1AP PDU">>
          /\ UNCHANGED cu_up_exec
  /\ UNCHANGED <<ue_ctxt_list, e1_task, pdu_notifier, cu_up_notifier, txn_vars>>
  /\ e1_frame

\* handle_message: offers the task to the executor.
handle_message(m) ==
  /\ E1Idle
  /\ IF Len(cu_up_exec) < cu_up_exec_capacity
     THEN /\ cu_up_exec' = Append(cu_up_exec, m)
          /\ e1_log' = <<>>
     ELSE /\ e1_log' = <<"Discarding E1AP PDU">>
          /\ UNCHANGED cu_up_exec
  /\ UNCHANGED <<ue_ctxt_list, e1_task, pdu_notifier, cu_up_notifier, txn_vars>>
  /\ e1_frame

\* The executor runs the oldest task: the lambda of handle_message.
RunTask(t, done) ==
  /\ cu_up_exec' = Tail(cu_up_exec)
  /\ e1_task' = t
  /\ ue_ctxt_list' = done.ues
  /\ pdu_notifier' = done.sent
  /\ cu_up_notifier' = done.calls
  /\ e1_log' = done.log
  /\ UNCHANGED txn_vars
  /\ e1_frame

\* Variant: the executor runs no task while a procedure waits for the
\* outcome of its transaction.
RunReady_blocking(proc) ==
  /\ E1Idle
  /\ transactions = {}
  /\ cu_up_exec # <<>>
  /\ Head(cu_up_exec).pdu = "init_msg"
  /\ Head(cu_up_exec).proc = proc

RunReady(proc) ==
  /\ E1Idle
  /\ cu_up_exec # <<>>
  /\ Head(cu_up_exec).pdu = "init_msg"
  /\ Head(cu_up_exec).proc = proc

run_bearer_context_setup_request ==
  /\ RunReady("bearer_context_setup_request")
  /\ \E body \in E1Bodies("bearer_context_setup_request"), resp \in SetupResponses :
       LET t == Task(Head(cu_up_exec), body)
       IN RunTask(t, handle_bearer_context_setup_request(t, resp))

run_bearer_context_modification_request ==
  /\ RunReady("bearer_context_mod_request")
  /\ \E body \in E1Bodies("bearer_context_mod_request") :
       LET t == Task(Head(cu_up_exec), body)
           idx == IF t.cu_up \in DOMAIN ue_ctxt_list
                  THEN ue_ctxt_list[t.cu_up].ue_index ELSE INVALID_UE_INDEX
       IN \E resp \in ModificationResponses(idx) :
            RunTask(t, handle_bearer_context_modification_request(t, resp))

run_bearer_context_release_command ==
  /\ RunReady("bearer_context_release_cmd")
  /\ \E body \in E1Bodies("bearer_context_release_cmd") :
       LET t == Task(Head(cu_up_exec), body)
       IN RunTask(t, handle_bearer_context_release_command(t))

\* Variant: an unsupported message ends the processing of what waits.
run_unsupported_initiating_message_flush ==
  /\ RunReady("other")
  /\ \E body \in E1Bodies("other") :
       /\ cu_up_exec' = <<>>
       /\ e1_task' = Task(Head(cu_up_exec), body)
       /\ pdu_notifier' = <<>>
       /\ cu_up_notifier' = <<>>
       /\ e1_log' = <<"Initiating message is not supported">>
       /\ UNCHANGED <<ue_ctxt_list, txn_vars>>
       /\ e1_frame

\* handle_initiating_message, default branch.
run_unsupported_initiating_message ==
  /\ RunReady("other")
  /\ \E body \in E1Bodies("other") :
       RunTask(Task(Head(cu_up_exec), body),
               E1Done(ue_ctxt_list, <<>>, <<>>, <<"Initiating message is not supported">>))

\* The lambda of handle_message on an outcome.
RunOutcome(t, done) ==
  /\ cu_up_exec' = Tail(cu_up_exec)
  /\ e1_task' = t
  /\ transactions' = done.pending
  /\ e1_setup_procs' = done.procs
  /\ e1_log' = done.log
  /\ pdu_notifier' = <<>>
  /\ cu_up_notifier' = <<>>
  /\ UNCHANGED <<ue_ctxt_list, next_transaction_id>>
  /\ e1_frame

OutcomeReady(pdu) ==
  /\ E1Idle
  /\ cu_up_exec # <<>>
  /\ Head(cu_up_exec).pdu = pdu

run_successful_outcome ==
  /\ OutcomeReady("successful_outcome")
  /\ LET t == OutcomeTask(Head(cu_up_exec))
     IN RunOutcome(t, handle_successful_outcome(t))

run_unsuccessful_outcome ==
  /\ OutcomeReady("unsuccessful_outcome")
  /\ LET t == OutcomeTask(Head(cu_up_exec))
     IN RunOutcome(t, handle_unsuccessful_outcome(t))

\* Variant: the procedure suspends without its transaction being created.
handle_cu_up_e1_setup_request_no_transaction ==
  /\ E1Idle
  /\ next_transaction_id < MaxTransactions
  /\ e1_setup_procs' = (next_transaction_id :> SuspendedProc) @@ e1_setup_procs
  /\ next_transaction_id' = next_transaction_id + 1
  /\ pdu_notifier' = <<E1SetupRequestOut(next_transaction_id)>>
  /\ e1_task' = [NoTask EXCEPT !.pdu = "procedure", !.proc = "cu_up_e1_setup",
                               !.transaction_id = next_transaction_id]
  /\ UNCHANGED <<transactions, ue_ctxt_list, cu_up_exec, cu_up_notifier, e1_log>>
  /\ e1_frame

\* handle_cu_up_e1_setup_request: the procedure is launched; it creates
\* its transaction, sends the request and suspends on the transaction.
handle_cu_up_e1_setup_request ==
  /\ E1Idle
  /\ next_transaction_id < MaxTransactions
  /\ transactions' = transactions \cup {next_transaction_id}
  /\ e1_setup_procs' = (next_transaction_id :> SuspendedProc) @@ e1_setup_procs
  /\ next_transaction_id' = next_transaction_id + 1
  /\ pdu_notifier' = <<E1SetupRequestOut(next_transaction_id)>>
  /\ e1_task' = [NoTask EXCEPT !.pdu = "procedure", !.proc = "cu_up_e1_setup",
                               !.transaction_id = next_transaction_id]
  /\ UNCHANGED <<ue_ctxt_list, cu_up_exec, cu_up_notifier, e1_log>>
  /\ e1_frame

\* The timer of a pending transaction fires: the transaction is resolved
\* with a timeout and its procedure resumed.
transaction_timeout(tid) ==
  /\ E1Idle
  /\ tid \in transactions
  /\ transactions' = transactions \ {tid}
  /\ e1_setup_procs' = resume(e1_setup_procs, tid, "timeout")
  /\ UNCHANGED <<next_transaction_id, e1_vars>>
  /\ e1_frame

\* The notification sent to the peer for an inactive UE.
InactivityOut(cu_cp, cu_up, activity) ==
  [type |-> "BearerContextInactivityNotification", cu_cp |-> cu_cp,
   cu_up |-> cu_up, cause |-> "none", activity |-> activity]

\* ue_ctxt_list[ue_index]: the CU-UP-side id of the context of that UE.
find_by_ue_index(list, idx) ==
  CHOOSE i \in DOMAIN list : list[i].ue_index = idx

\* Variant: a notification is sent for the UE level only.
handle_bearer_context_inactivity_notification_ue_level(idx) ==
  /\ E1Idle
  /\ e1_task' = [NoTask EXCEPT !.pdu = "notification",
                               !.proc = "bearer_context_inactivity_notif",
                               !.ue_index = idx]
  /\ IF idx \notin LiveUeIndexes
     THEN /\ pdu_notifier' = <<>>
          /\ e1_log' = <<"UE does not exist">>
     ELSE LET id == find_by_ue_index(ue_ctxt_list, idx)
              ue_ctxt == ue_ctxt_list[id]
              by_ue == ue_ctxt.activity_notification_level = "ue"
          IN /\ pdu_notifier' =
                  IF by_ue
                  THEN <<InactivityOut(ue_ctxt.cu_cp_ue_e1ap_id, id, "not_active")>>
                  ELSE <<>>
             /\ e1_log' = IF by_ue THEN <<>>
                          ELSE <<"activity notifications not supported">>
  /\ UNCHANGED <<ue_ctxt_list, cu_up_exec, cu_up_notifier, txn_vars>>
  /\ e1_frame

\* The CU-UP reports a UE as inactive.
handle_bearer_context_inactivity_notification(idx) ==
  /\ E1Idle
  /\ e1_task' = [NoTask EXCEPT !.pdu = "notification",
                               !.proc = "bearer_context_inactivity_notif",
                               !.ue_index = idx]
  /\ IF idx \notin LiveUeIndexes
     THEN /\ pdu_notifier' = <<>>
          /\ e1_log' = <<"UE does not exist">>
     ELSE LET id == find_by_ue_index(ue_ctxt_list, idx)
              ue_ctxt == ue_ctxt_list[id]
              by_ue == ue_ctxt.activity_notification_level = "ue"
          IN /\ pdu_notifier' =
                  <<InactivityOut(ue_ctxt.cu_cp_ue_e1ap_id, id,
                                  IF by_ue THEN "not_active" ELSE "unset")>>
             /\ e1_log' = IF by_ue THEN <<>>
                          ELSE <<"activity notifications not supported">>
  /\ UNCHANGED <<ue_ctxt_list, cu_up_exec, cu_up_notifier, txn_vars>>
  /\ e1_frame

HandleMessage == \E m \in E1Messages : handle_message(m)

NextE1ap ==
  \/ HandleMessage
  \/ run_bearer_context_setup_request
  \/ run_bearer_context_modification_request
  \/ run_bearer_context_release_command
  \/ run_unsupported_initiating_message
  \/ e1_return

\* ------------------------------------------------------ request domains
\* Requests of the session-level specification: a setup or modify request
\* adds at most one DRB, without QoS flows.
SessionDrbLists ==
  SeqUpTo([drb_id : DrbIds, qos_flow_info_to_be_setup : {FlowList(0)}], 1)

\* Setup requests of the DRB-level specification: up to MaxDrbItems DRBs,
\* in any order and with repeated ids, each with the same QoS flows.
DrbList(ids, flows) ==
  [i \in 1..Len(ids) |-> [drb_id |-> ids[i], qos_flow_info_to_be_setup |-> flows]]

DrbSetupLists ==
  {DrbList(ids, f) : ids \in SeqUpTo(DrbIds, MaxDrbItems), f \in FlowLists}

\* Requests of the modify-level specification: every DRB it sets up has
\* one QoS flow.
ModSetupItems == {i \in DrbToSetupItems : Len(i.qos_flow_info_to_be_setup) = 1}

ModSetupLists ==
  {DrbList(ids, FlowList(1)) : ids \in SeqUpTo(DrbIds, MaxDrbItems)}

ModifyRequests ==
  UNION {[to_setup : [1..n[1] -> ModSetupItems],
          to_modify : [1..n[2] -> DrbToModifyItems],
          to_rem : [1..n[3] -> DrbIds]] :
         n \in {m \in (0..MaxModItems) \X (0..MaxModItems) \X (0..MaxModItems) :
                  m[1] + m[2] + m[3] <= MaxModItems}}

PsmInit ==
  /\ ue_index \in UeIndexes
  /\ pdu_sessions = EmptyMap
  /\ gtpu_rx_demux = {}
  /\ f1u_gw = {}
  /\ psm_args = NoArgs
  /\ psm_result = NoResult("idle")
  /\ psm_calls = <<>>
  /\ psm_log = <<>>
  /\ psm_crashed = FALSE

\* No E1AP message has arrived yet.
E1Quiet ==
  /\ ue_ctxt_list = EmptyMap
  /\ cu_up_exec = <<>>
  /\ e1_task = NoTask
  /\ pdu_notifier = <<>>
  /\ cu_up_notifier = <<>>
  /\ e1_log = <<>>

\* No TEID derivation is under study.
TeidQuiet == teid_args = <<>> /\ teid_rets = <<>>

\* No E1 setup procedure has been launched.
TxnQuiet ==
  /\ transactions = {}
  /\ next_transaction_id = 0
  /\ e1_setup_procs = EmptyMap

Threads == 1..NofThreads

\* A thread outside reserve_encoder: id is the value it read last.
NoReserveCall == [pc |-> "idle", id |-> U32(0)]

\* Calls of reserve_encoder that have read the counter and not returned.
ReserveCallsOpen == Cardinality({t \in Threads : reserve_threads[t].pc = "read"})

\* The accelerator as it is built: no instance has reserved an id.
BbdevQuiet ==
  /\ nof_ldpc_enc_instances = U32(0)
  /\ nof_ldpc_dec_instances = U32(0)
  /\ bbdev_rets = <<>>
  /\ reserve_threads = [t \in Threads |-> NoReserveCall]

\* ---------------------------------------- RU SDR configuration as YAML
\* A YAML map node is a function from its keys; a null node is the empty
\* function as a map and the empty sequence as a list.
Put(m, k, v) == (k :> v) @@ m

PinningPolicies == {"mask", "round_robin"}
ThreadProfiles == {"blocking", "quad"}
\* optional<unsigned> gpio_index: the empty set when it has no value.
GpioIndexes == {{}, {5}}

\* os_sched_affinity_config of the downlink, the uplink and the RU.
DlCpuCfgs == [mask : {{}, {0}}, pinning_policy : PinningPolicies]
UlCpuCfgs == [mask : {{2}}, pinning_policy : {"mask"}]
RuCpuCfgs == [mask : {{}, {0, 1}}, pinning_policy : PinningPolicies]

CellAffinities ==
  [l1_dl_cpu_cfg : DlCpuCfgs, l1_ul_cpu_cfg : UlCpuCfgs, ru_cpu_cfg : RuCpuCfgs]

\* A configured sector: gpio_index is optional.
GpioSectors == [gpio_index : GpioIndexes]

\* ru_sdr_unit_config: the fields whose values shape the node.
RuSdrConfigs ==
  [execution_profile : ThreadProfiles,
   cell_affinities : SeqUpTo(CellAffinities, MaxCellAffinities),
   gpio_tx_cells : SeqUpTo(SeqUpTo(GpioSectors, MaxSectors), MaxGpioCells)]

EmptyConfig ==
  [execution_profile |-> "blocking", cell_affinities |-> <<>>,
   gpio_tx_cells |-> <<>>]

\* The node: log and ru_sdr hold the scalar entries written, cell_affinities
\* and gpio_tx_cells the two lists (a GPIO cell is its list of sectors).
EmptyNode ==
  [log |-> EmptyMap, execution_profile |-> "", cell_affinities |-> <<>>,
   ru_sdr |-> EmptyMap, gpio_tx_cells |-> <<>>]

\* What another writer of the same schema left in a cell-affinity entry.
StaleCellAffinity == Put(EmptyMap, "l1_dl_cpus", <<7>>)

\* The nodes the writer is handed for a configuration: a fresh one, or one
\* that holds an entry for every configured cell and sector already.
YamlNodes(c) ==
  {[EmptyNode EXCEPT !.cell_affinities = a, !.gpio_tx_cells = g] :
     a \in {<<>>, [i \in 1..Len(c.cell_affinities) |-> StaleCellAffinity]},
     g \in {<<>>, [i \in 1..Len(c.gpio_tx_cells) |->
                    [j \in 1..Len(c.gpio_tx_cells[i]) |-> EmptyMap]]}}

NotCalled == [at |-> "idle", i |-> 0]

\* No configuration is being written.
YamlQuiet == node = EmptyNode /\ config = EmptyConfig /\ yaml_pc = NotCalled

\* What the specifications of one component fix of the others.
RestQuiet ==
  cu_up_exec_capacity = MaxQueue /\ TxnQuiet /\ BbdevQuiet /\ YamlQuiet

Init == PsmInit /\ E1Quiet /\ TeidQuiet /\ RestQuiet

InitE1ap == PsmInit /\ ue_index = 0 /\ E1Quiet /\ TeidQuiet /\ RestQuiet

SpecE1ap == InitE1ap /\ [][NextE1ap]_vars

SetupPduSession ==
  \E sid \in SessionIds, l \in SessionDrbLists : setup_pdu_session(sid, l)

ModifyPduSession ==
  \E sid \in SessionIds, l \in SessionDrbLists :
    modify_pdu_session(sid, l, <<>>, <<>>, "garbage")

RemovePduSession == \E sid \in SessionIds : remove_pdu_session(sid)

DemuxForeignAdd ==
  \E sid \in SessionIds : demux_foreign_add(allocate_local_teid(ue_index, sid))

Next ==
  \/ SetupPduSession
  \/ ModifyPduSession
  \/ RemovePduSession
  \/ DemuxForeignAdd
  \/ psm_return

Spec == Init /\ [][Next]_vars

\* -------- the TEID derivations as pure functions
\* ue_index_t and pdu_session_id_t are 16 bits wide (256 is the invalid
\* session id), drb_id_t is 8 bits wide.
TeidUeValues == {0, 1, 255, 256, 65535}
TeidSidValues == {0, 1, 5, 255, 256}
TeidDrbValues == {0, 1, 29, 255}
TeidInputs == [ue : TeidUeValues, sid : TeidSidValues, drb : TeidDrbValues]

InitTeid ==
  /\ PsmInit /\ ue_index = 0
  /\ E1Quiet
  /\ teid_args \in [1..2 -> TeidInputs]
  /\ teid_rets = <<>>
  /\ RestQuiet

\* The next derivation is carried out.
teid_call ==
  /\ Len(teid_rets) < Len(teid_args)
  /\ teid_rets' = Append(teid_rets, allocate_local_teids(teid_args[Len(teid_rets) + 1]))
  /\ UNCHANGED teid_args
  /\ teid_frame

NextTeid == teid_call

SpecTeid == InitTeid /\ [][NextTeid]_vars

\* The DRB-level specifications: the manager is asked for one session.
DrbSpecSessionIds == {5}
DrbSpecSessionId == CHOOSE s \in DrbSpecSessionIds : TRUE

SetupDrbs ==
  \E l \in DrbSetupLists : setup_pdu_session(DrbSpecSessionId, l)

\* The outcomes of a read of dl_up_params[0] that a request can meet.
UbOutcomes(r) ==
  IF \E i \in 1..Len(r.to_modify) : Len(r.to_modify[i].dl_up_params) = 0
  THEN {"crash", "garbage"} ELSE {"garbage"}

RemoveSession == remove_pdu_session(DrbSpecSessionId)

\* Setup and removal of a session with full DRB lists.
NextDrb ==
  \/ SetupDrbs
  \/ RemoveSession
  \/ psm_return

\* One manager, the one of the UE with the highest index under study.
InitDrb == Init /\ \A u \in UeIndexes : u <= ue_index

SpecDrb == InitDrb /\ [][NextDrb]_vars

\* The modify-level specification: a session is set up, modified with all
\* three lists, and removed.
SetupForModify ==
  \E l \in ModSetupLists : setup_pdu_session(DrbSpecSessionId, l)

ModifyDrbs ==
  \E r \in ModifyRequests :
    \E ub \in UbOutcomes(r) :
      modify_pdu_session(DrbSpecSessionId, r.to_setup, r.to_modify, r.to_rem, ub)

NextMod ==
  \/ SetupForModify
  \/ ModifyDrbs
  \/ RemoveSession
  \/ psm_return

SpecMod == InitDrb /\ [][NextMod]_vars

\* -------- the dispatcher with the E1 setup procedure
\* The bearer-context messages of these specifications are those of one UE
\* of the peer.
ProcMessages == {m \in E1Messages : m.cu_cp = 1 /\ m.cu_up = 0}

HandleBearerMessage == \E m \in ProcMessages : handle_message(m)

\* The peer accepts an E1 setup that is pending.
HandleSetupResponse ==
  \E m \in E1Outcomes :
    /\ m.pdu = "successful_outcome"
    /\ m.transaction_id \in transactions
    /\ handle_message(m)

NextProc ==
  \/ handle_cu_up_e1_setup_request
  \/ HandleBearerMessage
  \/ HandleSetupResponse
  \/ run_successful_outcome
  \/ run_bearer_context_setup_request
  \/ run_bearer_context_modification_request
  \/ run_bearer_context_release_command
  \/ run_unsupported_initiating_message
  \/ e1_return

SpecProc == InitE1ap /\ [][NextProc]_vars

\* -------- the transactions alone: the peer sends outcomes of any kind
HandleOutcome == \E m \in E1Outcomes : handle_message(m)

TransactionTimeout == \E tid \in TransactionIds : transaction_timeout(tid)

NextTxn ==
  \/ handle_cu_up_e1_setup_request
  \/ HandleOutcome
  \/ run_successful_outcome
  \/ run_unsuccessful_outcome
  \/ TransactionTimeout
  \/ e1_return

SpecTxn == InitE1ap /\ [][NextTxn]_vars

\* The executor ends every task it runs, and the timer of a pending
\* transaction fires: its callback is a task of the same executor.
TxnFairness ==
  /\ WF_vars(e1_return)
  /\ \A tid \in TransactionIds : SF_vars(transaction_timeout(tid))

SpecTxnLive == InitE1ap /\ [][NextTxn]_vars /\ TxnFairness

\* -------- the order of processing: the executor holds several tasks
InactivityNotification ==
  \E idx \in E1UeIndexes : handle_bearer_context_inactivity_notification(idx)

NextOrder ==
  \/ HandleBearerMessage
  \/ InactivityNotification
  \/ run_bearer_context_setup_request
  \/ run_bearer_context_modification_request
  \/ run_bearer_context_release_command
  \/ run_unsupported_initiating_message
  \/ e1_return

InitOrder ==
  /\ PsmInit /\ ue_index = 0 /\ E1Quiet /\ TeidQuiet
  /\ cu_up_exec_capacity = MaxBacklog /\ TxnQuiet /\ BbdevQuiet /\ YamlQuiet

SpecOrder == InitOrder /\ [][NextOrder]_vars

\* -------- bbdev_acc: ids of the LDPC encoder and decoder instances
\* n++ on an unsigned: the value wraps at 2^32.
Inc32(t) ==
  IF t[4] < 255 THEN <<t[1], t[2], t[3], t[4] + 1>>
  ELSE IF t[3] < 255 THEN <<t[1], t[2], t[3] + 1, 0>>
  ELSE IF t[2] < 255 THEN <<t[1], t[2] + 1, 0, 0>>
  ELSE IF t[1] < 255 THEN <<t[1] + 1, 0, 0, 0>>
  ELSE <<0, 0, 0, 0>>

\* Variant: the encoder takes the decoder's counter.
reserve_encoder_decoder_counter ==
  /\ Len(bbdev_rets) < MaxReserveCalls
  /\ bbdev_rets' = Append(bbdev_rets, [op |-> "encoder", id |-> nof_ldpc_dec_instances])
  /\ nof_ldpc_dec_instances' = Inc32(nof_ldpc_dec_instances)
  /\ UNCHANGED nof_ldpc_enc_instances
  /\ bbdev_frame

reserve_encoder ==
  /\ Len(bbdev_rets) < MaxReserveCalls
  /\ bbdev_rets' = Append(bbdev_rets, [op |-> "encoder", id |-> nof_ldpc_enc_instances])
  /\ nof_ldpc_enc_instances' = Inc32(nof_ldpc_enc_instances)
  /\ UNCHANGED nof_ldpc_dec_instances
  /\ bbdev_frame

reserve_decoder ==
  /\ Len(bbdev_rets) < MaxReserveCalls
  /\ bbdev_rets' = Append(bbdev_rets, [op |-> "decoder", id |-> nof_ldpc_dec_instances])
  /\ nof_ldpc_dec_instances' = Inc32(nof_ldpc_dec_instances)
  /\ UNCHANGED nof_ldpc_enc_instances
  /\ bbdev_frame

\* reserve_encoder called from several threads. nof_ldpc_enc_instances++ on
\* a plain unsigned is a read of the counter followed by a write of the
\* value read plus one; nothing orders the two accesses of one thread
\* against those of another. The read:
reserve_encoder_read(t) ==
  /\ reserve_threads[t].pc = "idle"
  /\ Len(bbdev_rets) + ReserveCallsOpen < MaxReserveCalls
  /\ reserve_threads' =
       [reserve_threads EXCEPT ![t] = [pc |-> "read",
                                       id |-> nof_ldpc_enc_instances]]
  /\ UNCHANGED <<nof_ldpc_enc_instances, bbdev_rets>>
  /\ thread_frame

\* The write, and the return of the value read.
reserve_encoder_write(t) ==
  /\ reserve_threads[t].pc = "read"
  /\ nof_ldpc_enc_instances' = Inc32(reserve_threads[t].id)
  /\ bbdev_rets' = Append(bbdev_rets, [op |-> "encoder",
                                       id |-> reserve_threads[t].id])
  /\ reserve_threads' = [reserve_threads EXCEPT ![t].pc = "idle"]
  /\ thread_frame

ReserveEncoderRead == \E t \in Threads : reserve_encoder_read(t)

ReserveEncoderWrite == \E t \in Threads : reserve_encoder_write(t)

NextBbdevThreads ==
  \/ ReserveEncoderRead
  \/ ReserveEncoderWrite

SpecBbdevThreads == InitE1ap /\ [][NextBbdevThreads]_vars

NextBbdev ==
  \/ reserve_encoder
  \/ reserve_decoder

SpecBbdev == InitE1ap /\ [][NextBbdev]_vars

\* -------- ru_sdr_config_yaml_writer: the configuration written to a node
\* to_string(lower_phy_thread_profile): blocking is written as single.
to_string(profile) == IF profile = "blocking" THEN "single" ELSE profile

\* to_string of a pinning policy, as it is written to the node.
pinning_to_string(policy) == IF policy = "round_robin" THEN "round-robin" ELSE policy

RECURSIVE get_cpu_ids(_)
\* mask.get_cpu_ids() formatted with "{:,}": the ids in ascending order.
get_cpu_ids(mask) ==
  IF mask = {} THEN <<>>
  ELSE LET lo == CHOOSE x \in mask : \A y \in mask : x <= y
       IN <<lo>> \o get_cpu_ids(mask \ {lo})

\* while (config.size() > node.size()) node.push_back(YAML::Node())
pad_nodes(list, n, null) ==
  list \o [i \in 1..(IF n > Len(list) THEN n - Len(list) ELSE 0) |-> null]

\* Variant: the RU configuration is written to keys of its own.
fill_cell_affinity_ru_keys(cell, expert) ==
  LET dl == expert.l1_dl_cpu_cfg
      ul == expert.l1_ul_cpu_cfg
      ru == expert.ru_cpu_cfg
      c1 == IF dl.mask # {} THEN Put(cell, "l1_dl_cpus", get_cpu_ids(dl.mask))
            ELSE cell
      c2 == Put(c1, "l1_dl_pinning", pinning_to_string(dl.pinning_policy))
      c3 == IF ul.mask # {} THEN Put(c2, "l1_ul_cpus", get_cpu_ids(ul.mask))
            ELSE c2
      c4 == Put(c3, "l1_ul_pinning", pinning_to_string(ul.pinning_policy))
      c5 == IF ru.mask # {} THEN Put(c4, "ru_cpus", get_cpu_ids(ru.mask))
            ELSE c4
  IN Put(c5, "ru_pinning", pinning_to_string(ru.pinning_policy))

\* The body of the loop over cell_affinities_node: the six assignments to
\* one cell, in the order of the code.
fill_cell_affinity(cell, expert) ==
  LET dl == expert.l1_dl_cpu_cfg
      ul == expert.l1_ul_cpu_cfg
      ru == expert.ru_cpu_cfg
      c1 == IF dl.mask # {} THEN Put(cell, "l1_dl_cpus", get_cpu_ids(dl.mask))
            ELSE cell
      c2 == Put(c1, "l1_dl_pinning", pinning_to_string(dl.pinning_policy))
      c3 == IF ul.mask # {} THEN Put(c2, "l1_ul_cpus", get_cpu_ids(ul.mask))
            ELSE c2
      c4 == Put(c3, "l1_ul_pinning", pinning_to_string(ul.pinning_policy))
      c5 == IF ru.mask # {} THEN Put(c4, "l1_dl_cpus", get_cpu_ids(ru.mask))
            ELSE c4
  IN Put(c5, "l1_dl_pinning", pinning_to_string(ru.pinning_policy))

fill_ru_sdr_log_section ==
  /\ yaml_pc.at = "log"
  /\ node' = [node EXCEPT !.log = Put(Put(@, "radio_level", "info"),
                                      "phy_level", "warning")]
  /\ yaml_pc' = [yaml_pc EXCEPT !.at = "expert_execution"]
  /\ UNCHANGED config
  /\ yaml_frame

\* The node holds at most as many cell entries as the configuration.
fill_ru_sdr_expert_execution_section ==
  /\ yaml_pc.at = "expert_execution"
  /\ LET padded == pad_nodes(node.cell_affinities, Len(config.cell_affinities),
                             EmptyMap)
     IN node' = [node EXCEPT
                   !.execution_profile = to_string(config.execution_profile),
                   !.cell_affinities =
                      [i \in 1..Len(padded) |->
                         fill_cell_affinity(padded[i], config.cell_affinities[i])]]
  /\ yaml_pc' = [yaml_pc EXCEPT !.at = "ru_sdr"]
  /\ UNCHANGED config
  /\ yaml_frame

\* fill_ru_sdr_section up to the loop over the GPIO cells: the scalar
\* entries, and the padding of gpio_tx_cells.
fill_ru_sdr_section ==
  /\ yaml_pc.at = "ru_sdr"
  /\ node' = [node EXCEPT
                !.ru_sdr = Put(Put(Put(@, "srate", "config.srate_MHz"),
                                   "amplitude_control", "config.amplitude_cfg"),
                               "expert_cfg", "config.expert_cfg"),
                !.gpio_tx_cells = pad_nodes(@, Len(config.gpio_tx_cells), <<>>)]
  /\ yaml_pc' = [at |-> "gpio_tx_cells", i |-> 1]
  /\ UNCHANGED config
  /\ yaml_frame

\* gpio_tx_cells.push_back(YAML::Node()) on a list of n configured cells
\* held with up to MaxYamlNodes entries.
push_back_gpio_tx_cell(cells, n) ==
  IF Len(cells) < MaxYamlNodes THEN Append(cells, <<>>)
  ELSE Append(SubSeq(cells, 1, n), <<>>)

\* One iteration of the loop that pads the sectors of GPIO cell i: its
\* condition compares the configured sectors with gpio_tx_sectors, its body
\* appends to gpio_tx_cells.
pad_gpio_tx_sectors ==
  /\ yaml_pc.at = "gpio_tx_cells"
  /\ yaml_pc.i <= Len(config.gpio_tx_cells)
  /\ Len(config.gpio_tx_cells[yaml_pc.i]) > Len(node.gpio_tx_cells[yaml_pc.i])
  /\ node' = [node EXCEPT !.gpio_tx_cells =
                         push_back_gpio_tx_cell(@, Len(config.gpio_tx_cells))]
  /\ UNCHANGED <<config, yaml_pc>>
  /\ yaml_frame

\* One sector entry after the loop over j wrote it.
fill_gpio_tx_sector(sector, cfg) ==
  IF cfg.gpio_index = {} THEN sector
  ELSE Put(Put(Put(Put(sector, "gpio_index", cfg.gpio_index),
                   "sense", "cfg.sense"), "source", "cfg.source"),
           "prelude", "cfg.prelude")

\* The padding loop of cell i has ended: the sectors are written and the
\* loop over the cells moves on.
fill_gpio_tx_sectors ==
  /\ yaml_pc.at = "gpio_tx_cells"
  /\ yaml_pc.i <= Len(config.gpio_tx_cells)
  /\ Len(config.gpio_tx_cells[yaml_pc.i]) <= Len(node.gpio_tx_cells[yaml_pc.i])
  /\ LET cfg == config.gpio_tx_cells[yaml_pc.i]
     IN node' = [node EXCEPT !.gpio_tx_cells[yaml_pc.i] =
                   [j \in 1..Len(@) |->
                      IF j <= Len(cfg) THEN fill_gpio_tx_sector(@[j], cfg[j])
                      ELSE @[j]]]
  /\ yaml_pc' = [yaml_pc EXCEPT !.i = @ + 1]
  /\ UNCHANGED config
  /\ yaml_frame

\* The loop over the cells has ended: the last entry is written and
\* fill_ru_sdr_config_in_yaml_schema returns.
fill_ru_sdr_section_end ==
  /\ yaml_pc.at = "gpio_tx_cells"
  /\ yaml_pc.i > Len(config.gpio_tx_cells)
  /\ node' = [node EXCEPT !.ru_sdr = Put(@, "dl_buffer_size_policy",
                                         "config.dl_buffer_size_policy")]
  /\ yaml_pc' = [at |-> "done", i |-> 0]
  /\ UNCHANGED config
  /\ yaml_frame

NextYaml ==
  \/ fill_ru_sdr_log_section
  \/ fill_ru_sdr_expert_execution_section
  \/ fill_ru_sdr_section
  \/ pad_gpio_tx_sectors
  \/ fill_gpio_tx_sectors
  \/ fill_ru_sdr_section_end

\* fill_ru_sdr_config_in_yaml_schema is called with a configuration and a
\* node.
InitYaml ==
  /\ PsmInit /\ ue_index = 0 /\ E1Quiet /\ TeidQuiet
  /\ cu_up_exec_capacity = MaxQueue /\ TxnQuiet /\ BbdevQuiet
  /\ config \in RuSdrConfigs
  /\ node \in YamlNodes(config)
  /\ yaml_pc = [at |-> "log", i |-> 0]

SpecYaml == InitYaml /\ [][NextYaml]_vars

\* The writer is a sequential function: while it has a next statement, it
\* executes it.
SpecYamlLive == SpecYaml /\ WF_vars(NextYaml)

\* ================================================================ claims
\* Helpers of the claims.
CallsNamed(calls, name) == {i \in 1..Len(calls) : calls[i].name = name}

DistinctDrbIds(items) ==
  \A i, j \in 1..Len(items) : items[i].drb_id = items[j].drb_id => i = j

\* (ue << 8) | sid and (ue << 16) | (sid << 8) | drb for fields within their
\* widths, where the fields do not overlap and OR is addition.
N3TeidOf(ue, sid) == U32(ue * 256 + sid)
F1uTeidOf(ue, sid, drb) == U32(ue * 65536 + sid * 256 + drb)

\* A step in which a call of the given operation is made and returns.
Returns(op) == PsmIdle /\ psm_result'.op = op

\* ---- C1
\* C1: every bearer-context-setup and bearer-context-modification request
\* the dispatcher executes hands exactly one message to the outbound
\* notifier, the success response or the failure message of that procedure.
C1_ExactlyOneResponse ==
  /\ e1_task.proc = "bearer_context_setup_request" =>
       /\ Len(pdu_notifier) = 1
       /\ pdu_notifier[1].type \in {"BearerContextSetupResponse",
                                    "BearerContextSetupFailure"}
  /\ e1_task.proc = "bearer_context_mod_request" =>
       /\ Len(pdu_notifier) = 1
       /\ pdu_notifier[1].type \in {"BearerContextModificationResponse",
                                    "BearerContextModificationFailure"}

\* A setup request answered on the early return for an invalid UE index.
C1_Witness ==
  /\ e1_task.proc = "bearer_context_setup_request"
  /\ e1_log = <<"Invalid UE index">>
  /\ Len(cu_up_notifier) = 1
  /\ Len(pdu_notifier) = 1
  /\ pdu_notifier[1].type = "BearerContextSetupFailure"

\* ---- C2
\* C2: setup_pdu_session with a session id already present returns
\* success=false with cause radio_network and leaves the sessions, their
\* TEIDs, DRBs and QoS flows unchanged, with no call to the demultiplexer
\* or the F1-U gateway.
C2_DuplicateSetupRejected ==
  [][(Returns("setup") /\ psm_args'.pdu_session_id \in DOMAIN pdu_sessions) =>
       /\ ~psm_result'.success
       /\ psm_result'.cause = "radio_network"
       /\ pdu_sessions' = pdu_sessions
       /\ gtpu_rx_demux' = gtpu_rx_demux
       /\ f1u_gw' = f1u_gw
       /\ psm_calls' = <<>>]_vars

\* A second setup for a session that holds a DRB was rejected.
C2_Witness ==
  /\ psm_result.op = "setup"
  /\ psm_log = <<"already exists">>
  /\ psm_args.drb_to_setup_list # <<>>
  /\ psm_args.pdu_session_id \in DOMAIN pdu_sessions
  /\ DOMAIN pdu_sessions[psm_args.pdu_session_id].drbs # {}
  /\ pdu_sessions[psm_args.pdu_session_id].local_teid \in gtpu_rx_demux

\* ---- C3
\* C3: when add_tunnel rejects the new local TEID, setup_pdu_session reports
\* success=false and retains no partial state: the session id is not in the
\* session collection and the number of sessions is what it was.
C3_NoPartialState ==
  [][(Returns("setup") /\ psm_log' = <<"TEID already exists">>) =>
       /\ ~psm_result'.success
       /\ psm_args'.pdu_session_id \notin DOMAIN pdu_sessions'
       /\ Cardinality(DOMAIN pdu_sessions') = Cardinality(DOMAIN pdu_sessions)]_vars

\* ---- C4
\* C4: the number of sessions never exceeds MAX_NUM_PDU_SESSIONS_PER_UE, no
\* two sessions share a session id, and a setup issued while the count
\* equals the ceiling fails with cause radio_network and creates nothing.
C4_SessionCeiling ==
  /\ [](/\ get_nof_pdu_sessions <= MAX_NUM_PDU_SESSIONS_PER_UE
        /\ \A s, t \in DOMAIN pdu_sessions :
             /\ pdu_sessions[s].pdu_session_id = s
             /\ pdu_sessions[s].pdu_session_id = pdu_sessions[t].pdu_session_id
                  => s = t)
  /\ [][(Returns("setup")
         /\ Cardinality(DOMAIN pdu_sessions) = MAX_NUM_PDU_SESSIONS_PER_UE) =>
          /\ ~psm_result'.success
          /\ psm_result'.cause = "radio_network"
          /\ pdu_sessions' = pdu_sessions
          /\ gtpu_rx_demux' = gtpu_rx_demux
          /\ f1u_gw' = f1u_gw]_vars

\* A setup with a new id was refused at the ceiling.
C4_Witness ==
  /\ psm_result.op = "setup"
  /\ psm_log = <<"max number of PDU sessions reached">>
  /\ psm_args.pdu_session_id \notin DOMAIN pdu_sessions
  /\ Cardinality(DOMAIN pdu_sessions) = MAX_NUM_PDU_SESSIONS_PER_UE

\* ---- C5
\* C5: a setup with a new session id, below the ceiling, whose TEID is
\* accepted and whose N DRBs have distinct ids, succeeds with exactly N DRB
\* results in request order, each successful and carrying one successful
\* result per requested QoS flow, with the requested flow ids in order.
C5_SetupResults ==
  [][(/\ Returns("setup")
      /\ psm_args'.pdu_session_id \notin DOMAIN pdu_sessions
      /\ Cardinality(DOMAIN pdu_sessions) < MAX_NUM_PDU_SESSIONS_PER_UE
      /\ N3TeidOf(ue_index, psm_args'.pdu_session_id) \notin gtpu_rx_demux
      /\ DistinctDrbIds(psm_args'.drb_to_setup_list)) =>
       LET req == psm_args'.drb_to_setup_list
           res == psm_result'.drb_setup_results
       IN /\ psm_result'.success
          /\ Len(res) = Len(req)
          /\ \A i \in 1..Len(req) :
               LET flows == req[i].qos_flow_info_to_be_setup
               IN /\ res[i].drb_id = req[i].drb_id
                  /\ res[i].success
                  /\ Len(res[i].qos_flow_results) = Len(flows)
                  /\ \A j \in 1..Len(flows) :
                       /\ res[i].qos_flow_results[j].qos_flow_id = flows[j]
                       /\ res[i].qos_flow_results[j].success]_vars

\* A setup of two DRBs with two QoS flows each has returned.
C5_Witness ==
  /\ psm_result.op = "setup"
  /\ psm_result.success
  /\ Len(psm_args.drb_to_setup_list) = 2
  /\ DistinctDrbIds(psm_args.drb_to_setup_list)
  /\ \A i \in 1..2 : Len(psm_args.drb_to_setup_list[i].qos_flow_info_to_be_setup) = 2
  /\ psm_args.drb_to_setup_list[1].drb_id > psm_args.drb_to_setup_list[2].drb_id
  /\ Len(psm_result.drb_setup_results) = 2

\* ---- C6
\* C6: the N3 TEID of a session is (UE index << 8) | session id and the F1-U
\* uplink TEID of a DRB is (UE index << 16) | (session id << 8) | DRB id;
\* these values are reported in the result, stored in the session and DRB
\* contexts, registered at the demultiplexer and passed to the gateway.
C6_TeidValues ==
  (psm_result.op \in {"setup", "modify"} /\ psm_result.success) =>
    LET sid == psm_result.pdu_session_id
        n3 == N3TeidOf(ue_index, sid)
        res == psm_result.drb_setup_results
    IN /\ pdu_sessions[sid].local_teid = n3
       /\ n3 \in gtpu_rx_demux
       /\ psm_result.op = "setup" =>
            /\ psm_result.gtp_teid = n3
            /\ psm_calls[1] = Call("add_tunnel", n3, 0, 0)
       /\ \A i \in 1..Len(res) :
            res[i].success =>
              LET f1u == F1uTeidOf(ue_index, sid, res[i].drb_id)
              IN /\ res[i].gtp_teid = f1u
                 /\ f1u \in f1u_gw
                 /\ \E c \in CallsNamed(psm_calls, "create_cu_bearer") :
                      psm_calls[c].teid = f1u
                 /\ res[i].drb_id \in DOMAIN pdu_sessions[sid].drbs =>
                      pdu_sessions[sid].drbs[res[i].drb_id].f1u_ul_teid = f1u

\* A session with a DRB was set up for a UE with a non-zero index.
C6_Witness ==
  /\ psm_result.op = "setup"
  /\ psm_result.success
  /\ ue_index > 0
  /\ psm_result.drb_setup_results # <<>>
  /\ psm_result.gtp_teid = <<0, 0, ue_index, psm_result.pdu_session_id>>
  /\ psm_result.drb_setup_results[1].gtp_teid =
       <<0, ue_index, psm_result.pdu_session_id,
         psm_result.drb_setup_results[1].drb_id>>

\* ---- C7
\* C7: within the field widths (UE index below 2^16 for F1-U, session id and
\* DRB id below 2^8) equal inputs give equal TEIDs and inputs that differ in
\* a component give different TEIDs.
TeidInWidth(a) == a.ue < 65536 /\ a.sid < 256 /\ a.drb < 256

C7_TeidInjective ==
  (Len(teid_rets) = 2 /\ TeidInWidth(teid_args[1]) /\ TeidInWidth(teid_args[2])) =>
    /\ (teid_args[1] = teid_args[2]) <=> (teid_rets[1].f1u = teid_rets[2].f1u)
    /\ (teid_args[1].ue = teid_args[2].ue /\ teid_args[1].sid = teid_args[2].sid)
         <=> (teid_rets[1].n3 = teid_rets[2].n3)

\* Two derivations whose inputs differ in the DRB id only, and two whose
\* session id and DRB id are swapped, gave different TEIDs.
C7_Witness ==
  /\ Len(teid_rets) = 2
  /\ TeidInWidth(teid_args[1]) /\ TeidInWidth(teid_args[2])
  /\ teid_args[1].ue = teid_args[2].ue
  /\ teid_args[1].sid = teid_args[2].drb
  /\ teid_args[1].drb = teid_args[2].sid
  /\ teid_args[1].sid # teid_args[1].drb
  /\ teid_rets[1].f1u # teid_rets[2].f1u

\* ---- C8
\* C8: a derivation in which a field exceeds its bit width is fatal, so no
\* derivation returns a TEID in which bits of a field were lost or overlap
\* another field: every returned TEID holds the fields it was derived from.
C8_NoFieldLost ==
  \A i \in 1..Len(teid_rets) :
    LET a == teid_args[i]
        r == teid_rets[i]
    IN /\ r.n3[4] = a.sid
       /\ r.n3[1] * 65536 + r.n3[2] * 256 + r.n3[3] = a.ue
       /\ r.f1u[4] = a.drb
       /\ r.f1u[3] = a.sid
       /\ r.f1u[1] * 256 + r.f1u[2] = a.ue

\* ---- C9
\* C9: modify_pdu_session on an existing session returns success=true
\* whatever the per-DRB outcomes; a to-modify item with an unknown DRB id
\* yields a failed per-item result for that id, causes no attach_dl_teid
\* call, and the remaining items and lists are still processed. The call
\* fails to return only where it reads dl_up_params[0] of an empty list for
\* a DRB that exists.
KnownDrbs(sid, args) ==
  DOMAIN pdu_sessions[sid].drbs
    \cup {args.drb_to_setup_list[i].drb_id : i \in 1..Len(args.drb_to_setup_list)}

C10_ModifyUnknownSession ==
  [][(Returns("modify") /\ psm_args'.pdu_session_id \notin DOMAIN pdu_sessions) =>
       /\ ~psm_result'.success
       /\ psm_result'.cause = "misc"
       /\ psm_result'.drb_setup_results = <<>>
       /\ psm_result'.drb_modification_results = <<>>
       /\ pdu_sessions' = pdu_sessions
       /\ gtpu_rx_demux' = gtpu_rx_demux
       /\ f1u_gw' = f1u_gw
       /\ psm_calls' = <<>>]_vars

\* A modify request that adds a DRB named an absent session while another
\* session was live.
C10_Witness ==
  /\ psm_result.op = "modify"
  /\ psm_log = <<"doesn't exists">>
  /\ psm_args.drb_to_setup_list # <<>>
  /\ psm_args.pdu_session_id \notin DOMAIN pdu_sessions
  /\ pdu_sessions # EmptyMap

\* ---- C11
\* C11: when modify_pdu_session removes a DRB, remove_mapping for that DRB
\* is called immediately before its context is erased, every DRB of the
\* to-remove list that the session held is erased, and no SDAP mapping
\* names a DRB of the to-remove list once the call has returned.
MappingsOf(sdap, drb) == {m \in sdap : m[2] = drb}

C11_UnmapBeforeErase ==
  [][(Returns("modify") /\ psm_args'.pdu_session_id \in DOMAIN pdu_sessions) =>
       LET sid == psm_args'.pdu_session_id
           rem == psm_args'.drb_to_rem_list
           calls == psm_calls'
       IN /\ \A k \in CallsNamed(calls, "erase_drb") :
               /\ k > 1
               /\ calls[k - 1] = Call("remove_mapping", NoTeid, calls[k].a, 0)
               /\ calls[k].a \in Range(rem)
          /\ \A d \in Range(rem) :
               /\ d \notin DOMAIN pdu_sessions'[sid].drbs
               /\ MappingsOf(pdu_sessions'[sid].sdap, d) = {}
               /\ d \in KnownDrbs(sid, psm_args') =>
                    \E k \in CallsNamed(calls, "erase_drb") : calls[k].a = d
          /\ Cardinality(CallsNamed(calls, "remove_mapping")) = Len(rem)]_vars

\* A DRB that the request set up with a mapped QoS flow was removed by the
\* to-remove list of the same request.
C11_Witness ==
  /\ psm_result.op = "modify"
  /\ psm_result.success
  /\ Len(psm_args.drb_to_rem_list) = 1
  /\ psm_args.drb_to_setup_list # <<>>
  /\ psm_args.drb_to_setup_list[1].drb_id = psm_args.drb_to_rem_list[1]
  /\ \E k \in CallsNamed(psm_calls, "add_mapping") :
       psm_calls[k].b = psm_args.drb_to_rem_list[1]
  /\ CallsNamed(psm_calls, "erase_drb") # {}
  /\ DOMAIN pdu_sessions[psm_args.pdu_session_id].drbs = {}
  /\ pdu_sessions[psm_args.pdu_session_id].sdap = {}

\* ---- C12
\* C12: remove_pdu_session with a session id that is not present changes no
\* session and no DRB context and calls neither the F1-U gateway nor the
\* demultiplexer; after any remove_pdu_session the id is absent, so a
\* repeated call with the same id is such a no-op (idempotence).
C12_RemoveUnknownNoOp ==
  [][Returns("remove") =>
       /\ psm_args'.pdu_session_id \notin DOMAIN pdu_sessions'
       /\ psm_args'.pdu_session_id \notin DOMAIN pdu_sessions =>
            /\ pdu_sessions' = pdu_sessions
            /\ f1u_gw' = f1u_gw
            /\ gtpu_rx_demux' = gtpu_rx_demux
            /\ psm_calls' = <<>>
            /\ psm_log' = <<"not found">>]_vars

\* A removal named an absent session while a session with a connected DRB
\* was live.
C12_Witness ==
  /\ psm_result.op = "remove"
  /\ psm_log = <<"not found">>
  /\ psm_args.pdu_session_id \notin DOMAIN pdu_sessions
  /\ \E s \in DOMAIN pdu_sessions :
       /\ DOMAIN pdu_sessions[s].drbs # {}
       /\ \A d \in DOMAIN pdu_sessions[s].drbs :
            pdu_sessions[s].drbs[d].f1u_ul_teid \in f1u_gw

\* ---- C13
\* C13: remove_pdu_session on an existing session calls disconnect_cu_bearer
\* exactly once for each DRB the session holds, with the stored F1-U uplink
\* TEID of that DRB and for no other TEID, and erases that session alone, so
\* the session count drops by one and the other sessions keep their DRBs.
DrbTeids(s) == {s.drbs[d].f1u_ul_teid : d \in DOMAIN s.drbs}

C13_RemoveDisconnectsAll ==
  [][(Returns("remove") /\ psm_args'.pdu_session_id \in DOMAIN pdu_sessions) =>
       LET sid == psm_args'.pdu_session_id
           s == pdu_sessions[sid]
           disc == CallsNamed(psm_calls', "disconnect_cu_bearer")
       IN /\ \A d \in DOMAIN s.drbs :
               Cardinality({k \in disc : psm_calls'[k].teid = s.drbs[d].f1u_ul_teid}) = 1
          /\ Cardinality(disc) = Cardinality(DOMAIN s.drbs)
          /\ \A k \in disc : psm_calls'[k].teid \in DrbTeids(s)
          /\ \A k \in 1..Len(psm_calls') :
               psm_calls'[k].name \in {"disconnect_cu_bearer", "remove_tunnel"}
          /\ pdu_sessions' = MapRemove(pdu_sessions, sid)
          /\ Cardinality(DOMAIN pdu_sessions') = Cardinality(DOMAIN pdu_sessions) - 1
          /\ f1u_gw' = f1u_gw \ DrbTeids(s)]_vars

\* A session with two DRBs was removed while another session kept its DRB
\* connected at the gateway.
C13_Witness ==
  /\ psm_result.op = "remove"
  /\ Cardinality(CallsNamed(psm_calls, "disconnect_cu_bearer")) = 2
  /\ psm_calls[1].teid # psm_calls[2].teid
  /\ psm_args.pdu_session_id \notin DOMAIN pdu_sessions
  /\ \E t \in DOMAIN pdu_sessions :
       /\ DOMAIN pdu_sessions[t].drbs # {}
       /\ DrbTeids(pdu_sessions[t]) \subseteq f1u_gw

\* A step in which the executor runs a task of the given procedure.
Runs(proc) == E1Idle /\ e1_task'.proc = proc

\* ---- C14
\* C14: a modification request whose CU-UP-side UE id matches no live UE
\* context is answered with one BearerContextModificationFailure with cause
\* protocol that echoes both ids of the request; the lifecycle manager is
\* not called and the UE context table is unchanged.
C14_ModifyUnknownUe ==
  [][(Runs("bearer_context_mod_request") /\ e1_task'.cu_up \notin DOMAIN ue_ctxt_list) =>
       /\ pdu_notifier' = <<E1Out("BearerContextModificationFailure",
                                  e1_task'.cu_cp, e1_task'.cu_up, "protocol")>>
       /\ cu_up_notifier' = <<>>
       /\ ue_ctxt_list' = ue_ctxt_list]_vars

\* A modification request named a free id of the pool while another UE
\* context was live.
C14_Witness ==
  /\ e1_task.proc = "bearer_context_mod_request"
  /\ e1_log = <<"UE context not available">>
  /\ e1_task.cu_up \in CuUpIds \ DOMAIN ue_ctxt_list
  /\ ue_ctxt_list # EmptyMap
  /\ pdu_notifier # <<>>

\* ---- C15
\* C15: a modification request for a live UE context whose system bearer
\* context is present and not of the NG-RAN flavor is answered with one
\* BearerContextModificationFailure with cause protocol, and the lifecycle
\* manager is not called.
C15_ModifyOtherFlavor ==
  [][(/\ Runs("bearer_context_mod_request")
      /\ e1_task'.cu_up \in DOMAIN ue_ctxt_list
      /\ e1_task'.sys_bearer \notin {"absent", "ng_ran"}) =>
       /\ pdu_notifier' = <<E1Out("BearerContextModificationFailure",
                                  e1_task'.cu_cp, e1_task'.cu_up, "protocol")>>
       /\ cu_up_notifier' = <<>>
       /\ ue_ctxt_list' = ue_ctxt_list]_vars

\* An E-UTRAN modification request for a live UE was rejected.
C15_Witness ==
  /\ e1_task.proc = "bearer_context_mod_request"
  /\ e1_task.sys_bearer = "e_utran"
  /\ e1_task.cu_up \in DOMAIN ue_ctxt_list
  /\ e1_log = <<"Not handling E-UTRAN Bearers">>
  /\ Len(pdu_notifier) = 1

\* ---- C16
\* C16: every release command the dispatcher executes hands one
\* BearerContextReleaseComplete to the outbound notifier, echoing the
\* CU-CP-side and the CU-UP-side id of the command.
C16_ReleaseAlwaysCompletes ==
  e1_task.proc = "bearer_context_release_cmd" =>
    pdu_notifier = <<E1Out("BearerContextReleaseComplete",
                           e1_task.cu_cp, e1_task.cu_up, "none")>>

\* ---- C17
\* C17: a release command for a live UE context forwards the UE index of
\* that context and the cause of the command to the lifecycle manager
\* exactly once and removes that context, which is gone when the completion
\* is with the notifier; a modification request or release command naming
\* an id without a context makes no call to the lifecycle manager.
C17_ReleaseRemovesUe ==
  [][/\ (Runs("bearer_context_release_cmd") /\ e1_task'.cu_up \in DOMAIN ue_ctxt_list) =>
          /\ cu_up_notifier' =
               <<CuUpCall("on_bearer_context_release_command_received",
                          ue_ctxt_list[e1_task'.cu_up].ue_index, e1_task'.cause)>>
          /\ e1_task'.cause \in ReleaseCauses
          /\ e1_task'.cu_up \notin DOMAIN ue_ctxt_list'
          /\ \A i \in DOMAIN ue_ctxt_list \ {e1_task'.cu_up} :
               i \in DOMAIN ue_ctxt_list' /\ ue_ctxt_list'[i] = ue_ctxt_list[i]
          /\ pdu_notifier' = <<E1Out("BearerContextReleaseComplete",
                                     e1_task'.cu_cp, e1_task'.cu_up, "none")>>
     /\ (/\ E1Idle
         /\ e1_task'.proc \in {"bearer_context_release_cmd", "bearer_context_mod_request"}
         /\ e1_task'.cu_up \notin DOMAIN ue_ctxt_list) =>
          /\ cu_up_notifier' = <<>>
          /\ ue_ctxt_list' = ue_ctxt_list]_vars

\* One of two live UE contexts was released.
C17_Witness ==
  /\ e1_task.proc = "bearer_context_release_cmd"
  /\ Len(cu_up_notifier) = 1
  /\ cu_up_notifier[1].cause = "misc"
  /\ e1_task.cu_up \notin DOMAIN ue_ctxt_list
  /\ ue_ctxt_list # EmptyMap
  /\ \A i \in DOMAIN ue_ctxt_list : ue_ctxt_list[i].ue_index # cu_up_notifier[1].ue_index

\* ---- C18
\* C18: whenever a setup request is answered with BearerContextSetupFailure
\* the UE context table holds exactly the contexts it held before the
\* request.
C18_FailedSetupAddsNoUe ==
  [][(/\ Runs("bearer_context_setup_request")
      /\ pdu_notifier' # <<>>
      /\ pdu_notifier'[1].type = "BearerContextSetupFailure") =>
       ue_ctxt_list' = ue_ctxt_list]_vars

\* ---- C19
\* C19: when the lifecycle manager answers a setup with the invalid UE
\* index, the BearerContextSetupFailure that is sent has a cause of the
\* misc group and no UE context is registered.
C19_InvalidUeIndexCauseMisc ==
  (e1_task.proc = "bearer_context_setup_request" /\ e1_log = <<"Invalid UE index">>) =>
    /\ Len(pdu_notifier) = 1
    /\ pdu_notifier[1].type = "BearerContextSetupFailure"
    /\ pdu_notifier[1].cause = "misc"
    /\ \A i \in DOMAIN ue_ctxt_list : ue_ctxt_list[i].ue_index # INVALID_UE_INDEX

\* ---- C20
\* C20: a setup request that fails validation, or for which no CU-UP-side
\* id is available, is answered with one BearerContextSetupFailure with
\* cause protocol carrying the CU-CP-side id of the request; the lifecycle
\* manager is not called and the UE context table is unchanged.
C20_SetupEarlyFailure ==
  [][(/\ Runs("bearer_context_setup_request")
      /\ (~e1_task'.valid \/ next_gnb_cu_up_ue_e1ap_id = InvalidCuUpId)) =>
       /\ Len(pdu_notifier') = 1
       /\ pdu_notifier'[1].type = "BearerContextSetupFailure"
       /\ pdu_notifier'[1].cause = "protocol"
       /\ pdu_notifier'[1].cu_cp = e1_task'.cu_cp
       /\ cu_up_notifier' = <<>>
       /\ ue_ctxt_list' = ue_ctxt_list]_vars

\* A valid setup request was failed because every CU-UP-side id was taken.
C20_Witness ==
  /\ e1_task.proc = "bearer_context_setup_request"
  /\ e1_task.valid
  /\ e1_log = <<"No CU-UP-UE-E1AP-ID available">>
  /\ Cardinality(DOMAIN ue_ctxt_list) = MAX_NOF_UES
  /\ cu_up_notifier = <<>>
  /\ Len(pdu_notifier) = 1

\* ---- C21
\* C21: no two live UE contexts share a CU-UP-side id or a UE index; the id
\* a setup obtains is the id of no context live at that moment, and the
\* context it registers leaves the others as they were; a modification
\* request with the id of a live context finds that context, and an
\* inactivity notification for the UE of a live context finds it by its UE
\* index and carries its two ids.
C21_UniqueCuUpIds ==
  [][/\ DOMAIN ue_ctxt_list' \subseteq CuUpIds
     /\ \A i, j \in DOMAIN ue_ctxt_list' :
          ue_ctxt_list'[i].ue_index = ue_ctxt_list'[j].ue_index => i = j
     /\ next_gnb_cu_up_ue_e1ap_id \notin DOMAIN ue_ctxt_list
     /\ (Runs("bearer_context_setup_request") /\ cu_up_notifier' # <<>>) =>
          /\ pdu_notifier'[1].cu_up \notin DOMAIN ue_ctxt_list
          /\ DOMAIN ue_ctxt_list' \subseteq
               DOMAIN ue_ctxt_list \cup {pdu_notifier'[1].cu_up}
          /\ \A i \in DOMAIN ue_ctxt_list :
               i \in DOMAIN ue_ctxt_list' /\ ue_ctxt_list'[i] = ue_ctxt_list[i]
     /\ (Runs("bearer_context_mod_request")
           /\ e1_task'.cu_up \in DOMAIN ue_ctxt_list) =>
          /\ e1_log' # <<"UE context not available">>
          /\ \A i \in 1..Len(cu_up_notifier') :
               cu_up_notifier'[i].ue_index = ue_ctxt_list[e1_task'.cu_up].ue_index
     /\ (Runs("bearer_context_inactivity_notif")
           /\ e1_task'.ue_index \in LiveUeIndexes) =>
          /\ Len(pdu_notifier') = 1
          /\ pdu_notifier'[1].cu_up \in DOMAIN ue_ctxt_list
          /\ ue_ctxt_list[pdu_notifier'[1].cu_up].ue_index = e1_task'.ue_index
          /\ pdu_notifier'[1].cu_cp =
               ue_ctxt_list[pdu_notifier'[1].cu_up].cu_cp_ue_e1ap_id
    ]_vars

\* A setup has obtained id 0 while the context of id 1 was live: the id of
\* a released context is given out again, next to a live one.
C21_Witness ==
  /\ e1_task.proc = "bearer_context_setup_request"
  /\ Len(pdu_notifier) = 1
  /\ pdu_notifier[1].type = "BearerContextSetupResponse"
  /\ pdu_notifier[1].cu_up = 0
  /\ DOMAIN ue_ctxt_list = {0, 1}

\* ---- C22
\* C22: every message answering a setup or modification request carries the
\* CU-CP-side id of that request; a setup response carries the CU-UP-side id
\* allocated in that procedure, under which the UE context was registered
\* with the CU-CP-side id of the request; a modification response carries
\* the CU-UP-side id of the request.
C22_ResponseIds ==
  [][/\ (Runs("bearer_context_setup_request")
           \/ Runs("bearer_context_mod_request")) =>
          \A i \in 1..Len(pdu_notifier') :
            pdu_notifier'[i].cu_cp = e1_task'.cu_cp
     /\ Runs("bearer_context_setup_request") =>
          \A i \in 1..Len(pdu_notifier') :
            pdu_notifier'[i].type = "BearerContextSetupResponse" =>
              /\ pdu_notifier'[i].cu_up = next_gnb_cu_up_ue_e1ap_id
              /\ pdu_notifier'[i].cu_up \in
                   DOMAIN ue_ctxt_list' \ DOMAIN ue_ctxt_list
              /\ ue_ctxt_list'[pdu_notifier'[i].cu_up].cu_cp_ue_e1ap_id =
                   e1_task'.cu_cp
     /\ Runs("bearer_context_mod_request") =>
          \A i \in 1..Len(pdu_notifier') :
            pdu_notifier'[i].type = "BearerContextModificationResponse" =>
              pdu_notifier'[i].cu_up = e1_task'.cu_up
    ]_vars

\* A modification request for the context of id 1 was answered with a
\* success response.
C22_Witness ==
  /\ e1_task.proc = "bearer_context_mod_request"
  /\ e1_task.cu_up = 1
  /\ Len(pdu_notifier) = 1
  /\ pdu_notifier[1].type = "BearerContextModificationResponse"

\* ---- C23
\* A step of handle_message: the executor took the task, or refused it.
Accepted == Len(cu_up_exec') = Len(cu_up_exec) + 1
Dropped == e1_log' = <<"Discarding E1AP PDU">>

\* C23: handle_message runs no handler itself: a step that offers a task to
\* the executor sends nothing, calls nothing and leaves the UE contexts and
\* the transactions alone. A task is refused only when the executor is
\* full, and then the queue is left as it was, so that no handler runs for
\* the message: the tasks that run are the queued ones.
C23_QueueFullDrop ==
  [][/\ (Accepted \/ Dropped) =>
          /\ e1_task' = NoTask
          /\ pdu_notifier' = <<>> /\ cu_up_notifier' = <<>>
          /\ ue_ctxt_list' = ue_ctxt_list
          /\ transactions' = transactions
          /\ e1_setup_procs' = e1_setup_procs
          /\ next_transaction_id' = next_transaction_id
     /\ Accepted =>
          /\ Len(cu_up_exec) < cu_up_exec_capacity
          /\ SubSeq(cu_up_exec', 1, Len(cu_up_exec)) = cu_up_exec
     /\ Dropped =>
          /\ Len(cu_up_exec) = cu_up_exec_capacity
          /\ cu_up_exec' = cu_up_exec
     /\ e1_task'.pdu \in {"init_msg", "successful_outcome", "unsuccessful_outcome"} =>
          /\ cu_up_exec # <<>>
          /\ e1_task'.pdu = Head(cu_up_exec).pdu
          /\ e1_task'.proc = Head(cu_up_exec).proc
    ]_vars

\* A message was dropped while a UE context was live and an E1 setup
\* procedure was suspended.
C23_Witness ==
  /\ e1_log = <<"Discarding E1AP PDU">>
  /\ Len(cu_up_exec) = cu_up_exec_capacity
  /\ DOMAIN ue_ctxt_list # {}
  /\ transactions # {}

\* ---- C24
\* The message a task was made of.
MessageOf(t) == [pdu |-> t.pdu, proc |-> t.proc, cu_cp |-> t.cu_cp, cu_up |-> t.cu_up]

\* C24: an accepted message waits behind the messages accepted before it; a
\* handler starts only when the one before it has ended and its output has
\* left, it runs for the message that has waited longest, which leaves the
\* queue with that step while the others keep their order, and what it
\* sends answers that message: messages are processed once each and
\* answered in the order of their arrival.
C24_ArrivalOrder ==
  [][/\ Len(cu_up_exec') > Len(cu_up_exec) =>
          /\ e1_task = NoTask /\ e1_task' = NoTask
          /\ \E m \in E1Messages : cu_up_exec' = Append(cu_up_exec, m)
     /\ e1_task'.pdu = "init_msg" =>
          /\ e1_task = NoTask
          /\ pdu_notifier = <<>> /\ cu_up_notifier = <<>>
          /\ cu_up_exec # <<>>
          /\ MessageOf(e1_task') = Head(cu_up_exec)
          /\ cu_up_exec' = Tail(cu_up_exec)
          /\ \A i \in 1..Len(pdu_notifier') :
               pdu_notifier'[i].cu_cp = Head(cu_up_exec).cu_cp
    ]_vars

\* A setup request was answered while the modification request that came
\* after it waits.
C24_Witness ==
  /\ e1_task.proc = "bearer_context_setup_request"
  /\ Len(pdu_notifier) = 1
  /\ Len(cu_up_exec) = 1
  /\ cu_up_exec[1].proc = "bearer_context_mod_request"

\* ---- C25
\* A task for an outcome of the given kind runs.
RunsOutcome(pdu) == E1Idle /\ e1_task'.pdu = pdu

\* The result an outcome of the given kind resumes a procedure with.
ResultOf(pdu) == IF pdu = "successful_outcome" THEN "success" ELSE "failure"

\* C25: the pending transactions are those of the suspended procedures; an
\* outcome whose id is that of a pending transaction resolves it and
\* resumes its procedure with that outcome; a procedure is resumed at most
\* once, and once it is resumed no outcome and no timeout changes the
\* result it received.
C25_ResolvedOnce ==
  [][/\ \A tid \in DOMAIN e1_setup_procs' :
          /\ e1_setup_procs'[tid].resumed <= 1
          /\ (tid \in transactions') <=> (e1_setup_procs'[tid].state = "suspended")
     /\ \A tid \in DOMAIN e1_setup_procs :
          e1_setup_procs[tid].state = "done" =>
            e1_setup_procs'[tid] = e1_setup_procs[tid]
     /\ \A pdu \in {"successful_outcome", "unsuccessful_outcome"} :
          (RunsOutcome(pdu) /\ e1_task'.transaction_id \in transactions) =>
            /\ transactions' = transactions \ {e1_task'.transaction_id}
            /\ e1_setup_procs'[e1_task'.transaction_id] =
                 [state |-> "done", result |-> ResultOf(pdu), resumed |-> 1]
    ]_vars

\* A failure arrived for a transaction that a success had resolved: the
\* procedure keeps the success.
C25_Witness ==
  /\ e1_task.pdu = "unsuccessful_outcome"
  /\ e1_task.transaction_id \in DOMAIN e1_setup_procs
  /\ e1_setup_procs[e1_task.transaction_id].result = "success"
  /\ e1_log = <<"Unexpected transaction id">>

\* ---- C26
\* C26: an outcome that carries no transaction id, or the id of no pending
\* transaction, is logged and has no other effect: the pending transactions
\* and the procedures stay as they were, nothing is sent or called, and the
\* UE contexts are untouched.
C26_UnmatchedOutcomeIgnored ==
  [][\A pdu \in {"successful_outcome", "unsuccessful_outcome"} :
       (RunsOutcome(pdu) /\ e1_task'.transaction_id \notin transactions) =>
         /\ transactions' = transactions
         /\ e1_setup_procs' = e1_setup_procs
         /\ next_transaction_id' = next_transaction_id
         /\ pdu_notifier' = <<>> /\ cu_up_notifier' = <<>>
         /\ ue_ctxt_list' = ue_ctxt_list
         /\ Len(e1_log') = 1
    ]_vars

\* While a transaction is pending, an outcome without a transaction id was
\* dropped.
C26_Witness ==
  /\ e1_task.pdu = "successful_outcome"
  /\ e1_task.transaction_id = NoTransactionId
  /\ e1_log = <<"Successful outcome is not supported">>
  /\ 0 \in transactions

RunBearerTask ==
  \/ run_bearer_context_setup_request
  \/ run_bearer_context_modification_request
  \/ run_bearer_context_release_command

\* C28: while an E1 setup procedure is suspended, the dispatcher accepts a
\* message whenever the executor has room, and the bearer-context message
\* that waits is processed whenever the executor is between tasks; its
\* handler answers as ever (setup and modification with one message) and
\* leaves the suspended procedure suspended. The procedure is resumed by a
\* task of the same executor, the one of the outcome that waited longest.
C28_SuspendDoesNotBlock ==
  [][/\ (transactions # {} /\ E1Idle /\ Len(cu_up_exec) < cu_up_exec_capacity) =>
          ENABLED HandleBearerMessage
     /\ (transactions # {} /\ E1Idle /\ cu_up_exec # <<>>
           /\ Head(cu_up_exec).proc \in {"bearer_context_setup_request",
                                         "bearer_context_mod_request",
                                         "bearer_context_release_cmd"}) =>
          ENABLED RunBearerTask
     /\ (transactions # {} /\ e1_task'.pdu = "init_msg") =>
          /\ e1_task'.proc \in {"bearer_context_setup_request",
                                 "bearer_context_mod_request"} =>
               Len(pdu_notifier') = 1
          /\ transactions' = transactions
          /\ e1_setup_procs' = e1_setup_procs
     /\ \A tid \in transactions :
          tid \notin transactions' =>
            /\ cu_up_exec # <<>>
            /\ Head(cu_up_exec).pdu = "successful_outcome"
            /\ Head(cu_up_exec).transaction_id = tid
            /\ cu_up_exec' = Tail(cu_up_exec)
            /\ e1_setup_procs'[tid].state = "done"
    ]_vars

\* A bearer-context setup request was answered with a success response
\* while an E1 setup procedure was suspended.
C28_Witness ==
  /\ transactions # {}
  /\ e1_task.proc = "bearer_context_setup_request"
  /\ Len(pdu_notifier) = 1
  /\ pdu_notifier[1].type = "BearerContextSetupResponse"

\* ---- C29
\* C29: the task of an initiating message of no supported procedure logs
\* one line and does nothing else: it sends nothing, calls nothing and
\* leaves the UE contexts alone; the messages that wait behind it stay
\* queued in their order, and the task ends like any other.
C29_UnsupportedDropped ==
  [][/\ Runs("other") =>
          /\ pdu_notifier' = <<>> /\ cu_up_notifier' = <<>>
          /\ ue_ctxt_list' = ue_ctxt_list
          /\ cu_up_exec # <<>> /\ cu_up_exec' = Tail(cu_up_exec)
          /\ Len(e1_log') = 1
     /\ e1_task.proc = "other" =>
          /\ ENABLED e1_return
          /\ cu_up_exec' = cu_up_exec
          /\ e1_task' = NoTask /\ e1_log' = <<>>
    ]_vars

\* An unsupported message was dropped while a UE context was live and
\* another message waited.
C29_Witness ==
  /\ e1_task.proc = "other"
  /\ Len(cu_up_exec) = 1
  /\ DOMAIN ue_ctxt_list # {}

\* ---- C30
\* The calls of one kind among the reserve calls made so far.
CallsOf(op) == {i \in 1..Len(bbdev_rets) : bbdev_rets[i].op = op}

\* C30: the ids reserve_encoder has returned are pairwise different, and so
\* are those of reserve_decoder; each call returns the successor of the id
\* the call of the same kind before it returned, whatever calls of the
\* other kind were made in between.
C30_ReserveUniqueIds ==
  \A op \in {"encoder", "decoder"} :
    \A i, j \in CallsOf(op) :
      /\ i # j => bbdev_rets[i].id # bbdev_rets[j].id
      /\ (i < j /\ \A k \in CallsOf(op) : ~(i < k /\ k < j)) =>
           bbdev_rets[j].id = Inc32(bbdev_rets[i].id)

\* Encoders and decoders have reserved ids in turn, two of each at least.
C30_Witness ==
  /\ Len(bbdev_rets) >= 4
  /\ bbdev_rets[1].op = "encoder" /\ bbdev_rets[2].op = "decoder"
  /\ bbdev_rets[3].op = "encoder" /\ bbdev_rets[4].op = "decoder"

DrbIdsOf(items) == {items[i].drb_id : i \in 1..Len(items)}

\* A modify request on an existing session is executed.
ModifyCalled ==
  /\ PsmIdle
  /\ psm_result'.op \in {"modify", "crashed"}
  /\ psm_args'.pdu_session_id \in DOMAIN pdu_sessions

\* C34: modify_pdu_session applies its lists in the order to-setup,
\* to-modify, to-remove: a DRB named in the to-setup and the to-modify list
\* of one request is found and modified successfully in that request, and a
\* DRB named in the to-setup or to-modify list and in the to-remove list is
\* absent from the session when the call returns.
C34_ListsInOrder ==
  [][ModifyCalled =>
       LET sid == psm_args'.pdu_session_id
           added == DrbIdsOf(psm_args'.drb_to_setup_list)
           mods == psm_args'.drb_to_modify_list
           res == psm_result'.drb_modification_results
       IN /\ \A i \in 1..Len(mods) :
               mods[i].drb_id \in added =>
                 /\ psm_result'.op = "modify"
                 /\ \E k \in 1..Len(res) :
                      res[k].drb_id = mods[i].drb_id /\ res[k].success
          /\ \A d \in Range(psm_args'.drb_to_rem_list) :
               (d \in added \cup DrbIdsOf(mods) /\ psm_result'.op = "modify") =>
                 d \notin DOMAIN pdu_sessions'[sid].drbs]_vars

\* ---- C35
\* The DRB ids of a list of items or of results, in list order.
DrbIdSeq(items) == [i \in 1..Len(items) |-> items[i].drb_id]

\* C35: a modify_pdu_session call on an existing session returns one
\* drb_setup_results entry per to-setup item and one
\* drb_modification_results entry per to-modify item, in the order of the
\* request; no result of a to-modify item is placed in drb_setup_results.
C35_ResultsPerList ==
  [][(ModifyCalled /\ psm_result'.op = "modify") =>
       /\ DrbIdSeq(psm_result'.drb_setup_results)
            = DrbIdSeq(psm_args'.drb_to_setup_list)
       /\ DrbIdSeq(psm_result'.drb_modification_results)
            = DrbIdSeq(psm_args'.drb_to_modify_list)]_vars

\* ---- C36
\* C36: create_cu_bearer is never invoked with an uplink TEID whose bearer,
\* created earlier, is still connected at the gateway, also when a to-setup
\* item names a DRB id the session already holds.
C36_NoBearerCreatedTwice ==
  [][PsmIdle =>
       \A i \in CallsNamed(psm_calls', "create_cu_bearer") :
         /\ psm_calls'[i].teid \notin f1u_gw
         /\ \A j \in CallsNamed(psm_calls', "create_cu_bearer") :
              j < i => psm_calls'[j].teid # psm_calls'[i].teid]_vars

\* ---- C37
\* C37: modify_pdu_session never reads past the end of dl_up_params: the
\* call is not ended by such a read, and every attach_dl_teid call carries
\* the first element of the dl_up_params list of a to-modify item that has
\* one.
C37_NoReadPastEnd ==
  [][ModifyCalled =>
       /\ psm_result'.op = "modify"
       /\ \A c \in CallsNamed(psm_calls', "attach_dl_teid") :
            \E i \in 1..Len(psm_args'.drb_to_modify_list) :
              LET item == psm_args'.drb_to_modify_list[i]
              IN /\ Len(item.dl_up_params) > 0
                 /\ psm_calls'[c].a = item.dl_up_params[1]
                 /\ psm_calls'[c].teid
                      = F1uTeidOf(ue_index, psm_args'.pdu_session_id, item.drb_id)]_vars

\* ---- C38
\* C38: handle_bearer_context_inactivity_notification sends nothing when
\* the UE index has no UE context; for a UE index with a context it hands
\* exactly one BearerContextInactivityNotification to the outbound
\* notifier, with the CU-CP-side and CU-UP-side ids stored in that context,
\* whatever the activity notification level of the context; the UE context
\* table is unchanged in both cases.
C38_InactivityNotification ==
  [][Runs("bearer_context_inactivity_notif") =>
       LET idx == e1_task'.ue_index
           ctxts == {i \in DOMAIN ue_ctxt_list : ue_ctxt_list[i].ue_index = idx}
       IN /\ ue_ctxt_list' = ue_ctxt_list
          /\ IF ctxts = {} THEN pdu_notifier' = <<>>
             ELSE /\ Len(pdu_notifier') = 1
                  /\ pdu_notifier'[1].type = "BearerContextInactivityNotification"
                  /\ \E i \in ctxts :
                       /\ pdu_notifier'[1].cu_up = i
                       /\ pdu_notifier'[1].cu_cp = ue_ctxt_list[i].cu_cp_ue_e1ap_id]_vars

\* A notification was sent for a context whose level is not the UE level.
C38_Witness ==
  /\ e1_task.proc = "bearer_context_inactivity_notif"
  /\ Len(pdu_notifier) = 1
  /\ \E i \in DOMAIN ue_ctxt_list :
       /\ ue_ctxt_list[i].ue_index = e1_task.ue_index
       /\ ue_ctxt_list[i].activity_notification_level # "ue"
       /\ pdu_notifier[1].cu_up = i

\* ---- C39
\* C39: when threads call reserve_encoder on one bbdev_acc at the same
\* time, every interleaving of the reads and writes of the instance counter
\* gives the callers different ids, and once the calls have returned the
\* counter has increased by one per call.
C39_ConcurrentReserveUnique ==
  /\ \A i, j \in 1..Len(bbdev_rets) :
       i # j => bbdev_rets[i].id # bbdev_rets[j].id
  /\ (\A t \in Threads : reserve_threads[t].pc = "idle") =>
       nof_ldpc_enc_instances = U32(Len(bbdev_rets))

\* ---- C32
\* The writer is past fill_ru_sdr_expert_execution_section.
ExpertExecutionWritten == yaml_pc.at \in {"ru_sdr", "gpio_tx_cells", "done"}

\* C32: after fill_ru_sdr_expert_execution_section, in every cell-affinity
\* entry l1_dl_pinning holds the pinning policy of the RU, and l1_dl_cpus
\* holds the CPU mask of the RU whenever that mask is not empty, the
\* downlink mask only when the RU mask is empty and the downlink mask is
\* not.
C32_RuOverwritesDl ==
  ExpertExecutionWritten =>
    \A i \in 1..Len(config.cell_affinities) :
      LET expert == config.cell_affinities[i]
          cell == node.cell_affinities[i]
          ru == expert.ru_cpu_cfg
          dl == expert.l1_dl_cpu_cfg
      IN /\ cell["l1_dl_pinning"] = pinning_to_string(ru.pinning_policy)
         /\ ru.mask # {} => cell["l1_dl_cpus"] = get_cpu_ids(ru.mask)
         /\ (ru.mask = {} /\ dl.mask # {}) =>
              cell["l1_dl_cpus"] = get_cpu_ids(dl.mask)
         /\ "ru_cpus" \notin DOMAIN cell

\* A cell whose downlink and RU configuration differ in mask and policy
\* has been written.
C32_Witness ==
  /\ ExpertExecutionWritten
  /\ \E i \in 1..Len(config.cell_affinities) :
       LET expert == config.cell_affinities[i]
       IN /\ expert.ru_cpu_cfg.mask # {}
          /\ expert.l1_dl_cpu_cfg.mask # {}
          /\ expert.l1_dl_cpu_cfg.pinning_policy # expert.ru_cpu_cfg.pinning_policy
          /\ node.cell_affinities[i]["l1_dl_cpus"] = <<0, 1>>

\* ---- C40
\* C40: fill_ru_sdr_config_in_yaml_schema terminates for every
\* configuration: the loop that pads the sectors of a GPIO cell ends, and
\* the function returns.
C40_Terminates == <>(yaml_pc.at = "done")

====
